---- MODULE Spec2Model ----
(***************************************************************************)
(* Model of the cowork service: the process supervisor of                  *)
(* native/process.go (spawn, streamOutput, the reaper, writeStdin,         *)
(* isRunning), the RPC dispatcher of pipe/handlers.go and the frame codec  *)
(* of pipe/protocol.go.                                                    *)
(***************************************************************************)
EXTENDS Integers, Sequences, FiniteSets, TLC

\* ---------------------------------------------------------------- bounds
MaxSpawns == 1          \* spawn requests of a run that follows the child's life
MaxCalls == 2           \* spawn requests of a run that follows the ids alone
MaxLines == 2           \* lines one child writes, over both streams
PipeCap == 1            \* lines an OS pipe holds before the child's write blocks
MaxOps == 2             \* writeStdin and isProcessRunning requests of a run
StdinCap == 1           \* writes a stdin pipe holds before the next one blocks
MaxTasks == 4           \* tasks that call WriteMessage on one connection
MaxKills == 2           \* kill calls of a run
MaxFrames == 2          \* frames a client sends on one connection
MaxRequests == 3        \* frames the connection workers read
MaxTexts == 2           \* stdin writes and output lines of the remap model
MaxSubs == 2            \* subscriptions registered with the event bus
MaxEmits == 2           \* events the backend emits to the bus
MaxNames == 2           \* calls of mapSignal in one behaviour

\* ------------------------------------------------------------- constants
Streams == {"stdout", "stderr"}
CmdConns == {"B", "C"}          \* connections that issue commands
SubConns == {"A"}               \* connections that issue subscribeEvents
Conns == CmdConns \cup SubConns
SpawnIds == {"", "cli", "proc-1"}   \* the `id` parameter of spawn
ExitCodes == {0, 1}
Procs == 1..(IF MaxCalls > MaxSpawns THEN MaxCalls ELSE MaxSpawns)  \* spawn calls
NoEvent == [type |-> "none"]
QueryIds == {"cli", "proc-1", "ghost"}  \* the `id` of writeStdin, isProcessRunning
Writes == 1..MaxOps                 \* stdin writer goroutines
Tasks == 1..MaxTasks
NoRequest == [op |-> "none", id |-> "", n |-> 0]

\* A line of child output: "ok" fits the scanner's 10 MiB maximum, "long"
\* exceeds it (process.go:250).
LineKinds == {"ok", "long"}

VARIABLES
    nextID,         \* processTracker.nextID
    processes,      \* processTracker.processes: id -> index of the record
    calls,          \* number of spawn calls begun
    reqId,          \* per call: the `id` parameter the client sent
    num,            \* per call: the value of nextID it took (0: none)
    pid,            \* per call: the id chosen for it ("" before the choice)
    ret,            \* per call: what spawn returned ("none" before, "" failure)
    child,          \* per call: "none", "failed", "running", "exited"
    exitCode,       \* per call: the child's exit status
    done,           \* per call: localProcess.done is closed
    written,        \* per call and stream: the kinds of the lines written
    scanned,        \* per call and stream: lines the scanner consumed
    rd,             \* per call and stream: the reader goroutine
    rp,             \* per call: the reaper goroutine
    em,             \* per emitter: event being fanned out, callbacks left
    emitted,        \* history: every event handed to emit, in call order
    subscribers,    \* the backend's slot vector of callbacks
    cancelled,      \* per connection: the subscription's cancelled flag
    subFrom,        \* history: Len(emitted) when the connection subscribed
    wire,           \* per connection: frames the server wrote, in order
    connOpen,       \* per connection: the client has not closed it
    cpc,            \* per connection: where its dispatch worker is
    cur,            \* per connection: the spawn call it is running
    ops,            \* number of writeStdin and isProcessRunning requests begun
    req,            \* per connection: the request being served (op, id, serial)
    lq,             \* per connection: the record its lookup found (0: none)
    nwrites,        \* number of stdin writer goroutines started
    cw,             \* per connection: the writer goroutine of its writeStdin
    wgo,            \* per writer goroutine: "off", "lock", "write", "done"
    wproc,          \* per writer goroutine: the record it writes to
    wres,           \* per writer goroutine: its channel ch ("none": empty)
    stdinMu,        \* per call: holder of localProcess.mu (0: free)
    stdinBuf,       \* per call: writes held by the child's stdin pipe
    stream,         \* the bytes written on the connection shared by the tasks
    task,           \* per task: "ready", "writing", "done"
    bufs,           \* per task: buffers still to be passed to conn.Write
    termSig,        \* per call: the signal that terminated the child (0: none)
    got,            \* per call: signals delivered to the child's process group
    sent,           \* history: the signals kill has sent, in order
    kills,          \* number of kill calls begun
    ksig,           \* per connection: the signal its kill call sends
    kpg,            \* per connection: what Getpgid returned to its kill call
    begun,          \* history: the payloads a client has framed, in order
    outgoing,       \* the bytes of the client's frame still to reach the socket
    inbuf,          \* the bytes that reached the socket and are not yet read
    inEof,          \* the client has closed its end
    readLog,        \* history: what each ReadMessage call returned
    rstate,         \* ReadMessage: "header", "payload", or "failed"
    rlen,           \* ReadMessage: the declared length
    consumed,       \* number of bytes ReadMessage has taken from the socket
    served,         \* per connection: "none", "open", "subscribed", "closed"
    listener,       \* the listening socket: "open" or "closed"
    lastRead,       \* per connection: what its worker read last, numbered
    nframes,        \* number of reads so far
    failures,       \* per connection: number of failed reads
    backendLog,     \* history: the backend operations invoked, with results
    lproc,          \* the localProcess record of the remap model
    vmExists,       \* os.Stat of the virtual prefix succeeds
    spawnedWith,    \* history: the prefixes given to spawn, and vmExists then
    stdinLog,       \* history: each writeStdin call, its data and outcome
    outLog,         \* history: each output line and the event made of it
    slotConn,       \* history: per slot, the connection of its callback
    cflag,          \* per slot: the callback's `cancelled` flag
    writeMu,        \* per slot: the holder of the callback's writeMu
    cbpc,           \* per event and slot: where the goroutine of cb(event) is
    writers,        \* per connection: the calls that are inside conn.Write
    cancelLog,      \* history: each cancel() call, its slot and the events so far
    wfailed,        \* history: per slot, 0 or 1 + the events emitted when a write first failed
    osEnviron,      \* os.Environ() of the service
    envReq,         \* history: the keys of the env map given to spawn
    cmdEnv,         \* c.Env when the command starts
    quit,           \* s.quit is closed
    sockFile,       \* the socket file exists at socketPath
    apc,            \* where acceptLoop is
    stoppc,         \* where Stop is: "running" before it is called
    wg,             \* s.wg's counter
    backlog,        \* connections made and not yet accepted
    wpc,            \* per connection: where its handleConnection worker is
    pending,        \* per connection: frames sent and not yet read
    hung,           \* per connection: the client has closed its end
    handled,        \* history: per connection, the requests dispatched
    sentFrames,     \* history: per connection, the frames its client sent
    sigLog,         \* history: the names given to mapSignal and its results
    mainpc,         \* where main is: "serving" until the signal arrives
    ids,            \* killAll: the ids it copied from the registry
    idsLeft,        \* killAll: the ids its loop has not reached yet
    kaProc,         \* killAll: the record its kill call found (0: none)
    kaPg,           \* killAll: what Getpgid returned to its kill call
    afterExit       \* history: per connection, emit of the exit event of the
                    \* record its request found had returned when it began

procVars == <<nextID, processes, calls, reqId, num, pid, ret, child, exitCode,
              done>>
ioVars == <<written, scanned, rd, rp>>
busVars == <<em, emitted, subscribers, cancelled, subFrom, wire, connOpen>>
connVars == <<cpc, cur>>
stdinVars == <<ops, req, lq, nwrites, cw, wgo, wproc, wres, stdinMu, stdinBuf>>
wireVars == <<stream, task, bufs>>
killVars == <<termSig, got, sent, kills, ksig, kpg>>
codecVars == <<begun, outgoing, inbuf, inEof, readLog, rstate, rlen, consumed>>
dispVars == <<served, listener, lastRead, nframes, failures, backendLog>>
remapVars == <<lproc, vmExists, spawnedWith, stdinLog, outLog>>
mgrVars == <<slotConn, cflag, writeMu, cbpc, writers, cancelLog, wfailed>>
envVars == <<osEnviron, envReq, cmdEnv>>
stopVars == <<quit, sockFile, apc, stoppc, wg, backlog, wpc, pending, hung,
              handled, sentFrames>>
shutVars == <<mainpc, ids, idsLeft, kaProc, kaPg>>
auxVars == <<sigLog, shutVars, afterExit>>
vars == <<procVars, ioVars, busVars, connVars, stdinVars, wireVars, killVars,
          codecVars, dispVars, remapVars, mgrVars, envVars, stopVars,
          auxVars>>
notBus == <<procVars, ioVars, stdinVars, wireVars, killVars, codecVars,
            dispVars, remapVars, envVars, stopVars, auxVars, em, cancelled,
            subFrom, cur>>
notEnv == <<procVars, ioVars, busVars, connVars, stdinVars, wireVars,
            killVars, codecVars, dispVars, remapVars, mgrVars, stopVars,
            auxVars>>
notStop == <<procVars, ioVars, busVars, connVars, stdinVars, wireVars,
             killVars, codecVars, remapVars, mgrVars, envVars, auxVars,
             served, lastRead, nframes, failures, backendLog>>
notAux == <<procVars, ioVars, busVars, connVars, stdinVars, wireVars,
            killVars, codecVars, dispVars, remapVars, mgrVars, envVars,
            stopVars>>
notShut == <<procVars, ioVars, busVars, cur, stdinVars, wireVars, codecVars,
             dispVars, remapVars, mgrVars, envVars, sigLog, termSig, kills,
             ksig, kpg, sockFile, apc, stoppc, wg, backlog, wpc, pending,
             hung, handled, sentFrames, afterExit>>

\* Emitters: every goroutine that calls pt.emit.
ConnEm(c) == <<"conn", 0, c>>
ReaderEm(k, s) == <<"rd", k, s>>
ReaperEm(k) == <<"rp", k, "-">>
Emitters == {ConnEm(c) : c \in CmdConns}
            \cup {ReaderEm(k, s) : k \in Procs, s \in Streams}
            \cup {ReaperEm(k) : k \in Procs}

\* ------------------------------------------------------------ events
\* process/events: the constructors. `proc` and `stream` are history
\* fields (which spawn call and which pipe the event came from); they are
\* not on the wire.
NewStdoutEvent(id, data, k, s) ==
    [type |-> "stdout", id |-> id, data |-> data, proc |-> k, stream |-> s]

NewExitEvent(id, code, k) ==
    [type |-> "exit", id |-> id, exitCode |-> code, proc |-> k]

NewErrorEvent(id, fatal, k, s) ==
    [type |-> "error", id |-> id, fatal |-> fatal, proc |-> k, stream |-> s]

\* fmt.Sprintf("proc-%d", n)
FormatProcId(n) == "proc-" \o ToString(n)

\* ------------------------------------------------------------ event bus
\* The callbacks registered and not cancelled, in slot order.
Snapshot == SelectSeq(subscribers, LAMBDA c : c /= "nil")

\* emit(event): the event enters the history and the emitter starts calling
\* the callbacks of the snapshot one after the other, on its own goroutine.
Emit(e, event) ==
    /\ emitted' = Append(emitted, event)
    /\ em' = [em EXCEPT ![e] = [ev |-> event, todo |-> Snapshot, cb |-> "check"]]

\* emit has returned to its caller.
EmitDone(e) == em[e].todo = <<>>

Idle == [ev |-> NoEvent, todo |-> <<>>, cb |-> "check"]

Init ==
    /\ nextID = 0
    /\ processes = [i \in {} |-> 0]
    /\ calls = 0
    /\ reqId = [k \in Procs |-> ""]
    /\ num = [k \in Procs |-> 0]
    /\ pid = [k \in Procs |-> ""]
    /\ ret = [k \in Procs |-> "none"]
    /\ child = [k \in Procs |-> "none"]
    /\ exitCode = [k \in Procs |-> 0]
    /\ done = [k \in Procs |-> FALSE]
    /\ written = [k \in Procs |-> [s \in Streams |-> <<>>]]
    /\ scanned = [k \in Procs |-> [s \in Streams |-> 0]]
    /\ rd = [k \in Procs |-> [s \in Streams |-> "off"]]
    /\ rp = [k \in Procs |-> "off"]
    /\ em = [e \in Emitters |-> Idle]
    /\ emitted = <<>>
    /\ subscribers = <<>>
    /\ cancelled = [c \in Conns |-> FALSE]
    /\ subFrom = [c \in Conns |-> 0]
    /\ wire = [c \in Conns |-> <<>>]
    /\ connOpen = [c \in Conns |-> TRUE]
    /\ cpc = [c \in Conns |-> "read"]
    /\ cur = [c \in Conns |-> 0]
    /\ ops = 0
    /\ req = [c \in Conns |-> NoRequest]
    /\ lq = [c \in Conns |-> 0]
    /\ nwrites = 0
    /\ cw = [c \in Conns |-> 0]
    /\ wgo = [w \in Writes |-> "off"]
    /\ wproc = [w \in Writes |-> 0]
    /\ wres = [w \in Writes |-> "none"]
    /\ stdinMu = [k \in Procs |-> 0]
    /\ stdinBuf = [k \in Procs |-> 0]
    /\ stream = <<>>
    /\ task = [t \in Tasks |-> "ready"]
    /\ bufs = [t \in Tasks |-> <<>>]
    /\ termSig = [k \in Procs |-> 0]
    /\ got = [k \in Procs |-> {}]
    /\ sent = <<>>
    /\ kills = 0
    /\ ksig = [c \in Conns |-> 0]
    /\ kpg = [c \in Conns |-> "none"]
    /\ begun = <<>>
    /\ outgoing = <<>>
    /\ inbuf = <<>>
    /\ inEof = FALSE
    /\ readLog = <<>>
    /\ rstate = "header"
    /\ rlen = 0
    /\ consumed = 0
    /\ served = [c \in Conns |-> "none"]
    /\ listener = "open"
    /\ lastRead = [c \in Conns |-> [n |-> 0]]
    /\ nframes = 0
    /\ failures = [c \in Conns |-> 0]
    /\ backendLog = <<>>
    /\ lproc = [id |-> ""]
    /\ vmExists = FALSE
    /\ spawnedWith = [v |-> <<>>, r |-> <<>>, existed |-> FALSE]
    /\ stdinLog = <<>>
    /\ outLog = <<>>
    /\ slotConn = <<>>
    /\ cflag = [i \in 1..MaxSubs |-> FALSE]
    /\ writeMu = [i \in 1..MaxSubs |-> <<>>]
    /\ cbpc = [n \in 1..MaxEmits |-> [i \in 1..MaxSubs |-> "none"]]
    /\ writers = [c \in Conns |-> {}]
    /\ cancelLog = <<>>
    /\ wfailed = [i \in 1..MaxSubs |-> 0]
    /\ osEnviron = <<"unset">>
    /\ envReq = <<>>
    /\ cmdEnv = <<"nil">>
    /\ quit = FALSE
    /\ sockFile = TRUE
    /\ apc = <<"accept">>
    /\ stoppc = "running"
    /\ wg = 1
    /\ backlog = {}
    /\ wpc = [c \in Conns |-> "none"]
    /\ pending = [c \in Conns |-> 0]
    /\ hung = [c \in Conns |-> FALSE]
    /\ handled = [c \in Conns |-> 0]
    /\ sentFrames = [c \in Conns |-> 0]
    /\ sigLog = <<>>
    /\ mainpc = "serving"
    /\ ids = {}
    /\ idsLeft = {}
    /\ kaProc = 0
    /\ kaPg = ""
    /\ afterExit = [c \in Conns |-> FALSE]

\* ------------------------------------------------------------ replies
\* pipe/protocol.go: WriteResponse and WriteError build one frame each. The
\* result is the JSON object the handler passes, as a record.
SuccessReply(result) == [kind |-> "reply", success |-> TRUE, result |-> result]
ErrorReply(message) == [kind |-> "reply", success |-> FALSE, error |-> message]
EventFrame(event) == [kind |-> "event", event |-> event]

\* WriteMessage on a connection: header and payload leave in one write, so
\* the frame is appended whole; on a closed connection the write fails and
\* nothing reaches the client.
WriteFrame(c, frame) ==
    wire' = [wire EXCEPT ![c] = IF connOpen[c] THEN Append(@, frame) ELSE @]

\* ------------------------------------------------------------ spawn
\* Variant of NextIdAfter that leaves the counter alone.
NextIdNotIncremented(id) == nextID

\* Variant of ChosenId that ignores the caller's id.
ChosenIdIgnoresCaller(id, n) == FormatProcId(n)

\* The id spawn uses: the caller's when non-empty, else proc-N with N the
\* incremented counter (process.go:59-64).
ChosenId(id, n) == IF id = "" THEN FormatProcId(n) ELSE id

\* The counter after a call that was given `id`.
NextIdAfter(id) == IF id = "" THEN nextID + 1 ELSE nextID

\* handleSpawn reads a spawn request and spawn assigns the id.
SpawnAssignId(c, id) ==
    /\ cpc[c] = "read" /\ connOpen[c]
    /\ calls' = calls + 1
    /\ cur' = [cur EXCEPT ![c] = calls + 1]
    /\ reqId' = [reqId EXCEPT ![calls + 1] = id]
    /\ nextID' = NextIdAfter(id)
    /\ num' = [num EXCEPT ![calls + 1] = IF id = "" THEN nextID' ELSE 0]
    /\ pid' = [pid EXCEPT ![calls + 1] = ChosenId(id, nextID')]
    /\ cpc' = [cpc EXCEPT ![c] = "spawn_start"]
    /\ UNCHANGED <<auxVars, mgrVars, envVars, stopVars, remapVars, dispVars, codecVars, killVars, stdinVars, wireVars, processes, ret, child, exitCode, done, ioVars, busVars>>

\* Variant of SpawnStartFail that emits nothing.
SpawnStartFailSilent(c) ==
    /\ cpc[c] = "spawn_start"
    /\ child' = [child EXCEPT ![cur[c]] = "failed"]
    /\ ret' = [ret EXCEPT ![cur[c]] = ""]
    /\ cpc' = [cpc EXCEPT ![c] = "spawn_fail"]
    /\ UNCHANGED <<auxVars, mgrVars, envVars, stopVars, remapVars, dispVars, codecVars, killVars, stdinVars, wireVars, nextID, processes, calls, reqId,
                   num, pid, exitCode, done, ioVars, busVars, cur>>

\* c.Start() fails: one fatal error event, then the failure reply.
SpawnStartFail(c) ==
    /\ cpc[c] = "spawn_start"
    /\ child' = [child EXCEPT ![cur[c]] = "failed"]
    /\ ret' = [ret EXCEPT ![cur[c]] = ""]
    /\ Emit(ConnEm(c), NewErrorEvent(pid[cur[c]], TRUE, cur[c], "-"))
    /\ cpc' = [cpc EXCEPT ![c] = "spawn_fail"]
    /\ UNCHANGED <<auxVars, mgrVars, envVars, stopVars, remapVars, dispVars, codecVars, killVars, stdinVars, wireVars, nextID, processes, calls, reqId, num, pid, exitCode, done,
                   ioVars, subscribers, cancelled, subFrom, wire, connOpen, cur>>

SpawnFailReply(c) ==
    /\ cpc[c] = "spawn_fail"
    /\ EmitDone(ConnEm(c))
    /\ WriteFrame(c, ErrorReply("starting process"))
    /\ cpc' = [cpc EXCEPT ![c] = "read"]
    /\ UNCHANGED <<auxVars, mgrVars, envVars, stopVars, remapVars, dispVars, codecVars, killVars, stdinVars, wireVars, procVars, ioVars, em, emitted, subscribers, cancelled, subFrom,
                   connOpen, cur>>

\* c.Start() succeeds: the child runs from here on.
SpawnStartOk(c) ==
    /\ cpc[c] = "spawn_start"
    /\ child' = [child EXCEPT ![cur[c]] = "running"]
    /\ cpc' = [cpc EXCEPT ![c] = "spawn_insert"]
    /\ UNCHANGED <<auxVars, mgrVars, envVars, stopVars, remapVars, dispVars, codecVars, killVars, stdinVars, wireVars, nextID, processes, calls, reqId, num, pid, ret, exitCode, done,
                   ioVars, busVars, cur>>

\* pt.processes[id] = lp (process.go:174-176).
RegistryInsert(id, k) == (id :> k) @@ processes

\* The record enters the registry, the two readers and the reaper start,
\* spawn returns the id and handleSpawn writes the reply.
SpawnInsert(c) ==
    LET k == cur[c] IN
    /\ cpc[c] = "spawn_insert"
    /\ processes' = RegistryInsert(pid[k], k)
    /\ ret' = [ret EXCEPT ![k] = pid[k]]
    /\ rd' = [rd EXCEPT ![k] = [s \in Streams |-> "scan"]]
    /\ rp' = [rp EXCEPT ![k] = "join"]
    /\ WriteFrame(c, SuccessReply([id |-> pid[k]]))
    /\ cpc' = [cpc EXCEPT ![c] = "read"]
    /\ UNCHANGED <<auxVars, mgrVars, envVars, stopVars, remapVars, dispVars, codecVars, killVars, stdinVars, wireVars, nextID, calls, reqId, num, pid, child, exitCode, done,
                   written, scanned, em, emitted, subscribers, cancelled, subFrom,
                   connOpen, cur>>

\* ------------------------------------------------------------ the child
TotalWritten(k) == Len(written[k]["stdout"]) + Len(written[k]["stderr"])

\* The child writes one line to a pipe that has room for it.
ChildWrite(k, s, kind) ==
    /\ child[k] = "running"
    /\ TotalWritten(k) < MaxLines
    /\ Len(written[k][s]) - scanned[k][s] < PipeCap
    /\ written' = [written EXCEPT ![k][s] = Append(@, kind)]
    /\ UNCHANGED <<auxVars, mgrVars, envVars, stopVars, remapVars, dispVars, codecVars, killVars, stdinVars, wireVars, procVars, scanned, rd, rp, busVars, connVars>>

\* The child terminates; its ends of the pipes close.
ChildExit(k, code) ==
    /\ child[k] = "running"
    /\ child' = [child EXCEPT ![k] = "exited"]
    /\ exitCode' = [exitCode EXCEPT ![k] = code]
    /\ UNCHANGED <<auxVars, mgrVars, envVars, stopVars, remapVars, dispVars, codecVars, killVars, stdinVars, wireVars, nextID, processes, calls, reqId, num, pid, ret, done, ioVars,
                   busVars, connVars>>

\* ------------------------------------------------------------ readers
\* The text of the i-th line on a stream, and the data of its event:
\* scanner.Text() + "\n" (process.go:252).
LineText(i) == "line" \o ToString(i)
EventData(i) == LineText(i) \o "\n"

ReaderDone(k, s) == rd[k][s] = "done" /\ EmitDone(ReaderEm(k, s))

\* Variant of StreamLine that consumes the line and emits nothing.
StreamLineDropsLine(k, s) ==
    /\ rd[k][s] = "scan"
    /\ EmitDone(ReaderEm(k, s))
    /\ scanned[k][s] < Len(written[k][s])
    /\ written[k][s][scanned[k][s] + 1] = "ok"
    /\ scanned' = [scanned EXCEPT ![k][s] = @ + 1]
    /\ UNCHANGED <<auxVars, mgrVars, envVars, stopVars, remapVars, dispVars, codecVars, killVars, stdinVars, wireVars, procVars, written, rd, rp, busVars, connVars>>

\* streamOutput, one turn of the scan loop on a line that fits: the line is
\* consumed and emitted as a stdout event, whichever the stream.
StreamLine(k, s) ==
    /\ rd[k][s] = "scan"
    /\ EmitDone(ReaderEm(k, s))
    /\ scanned[k][s] < Len(written[k][s])
    /\ written[k][s][scanned[k][s] + 1] = "ok"
    /\ scanned' = [scanned EXCEPT ![k][s] = @ + 1]
    /\ Emit(ReaderEm(k, s),
            NewStdoutEvent(pid[k], EventData(scanned[k][s] + 1), k, s))
    /\ UNCHANGED <<auxVars, mgrVars, envVars, stopVars, remapVars, dispVars, codecVars, killVars, stdinVars, wireVars, procVars, written, rd, rp, subscribers, cancelled, subFrom, wire,
                   connOpen, connVars>>

\* Variant of StreamTooLong whose error event is fatal.
StreamTooLongFatal(k, s) ==
    /\ rd[k][s] = "scan"
    /\ EmitDone(ReaderEm(k, s))
    /\ scanned[k][s] < Len(written[k][s])
    /\ written[k][s][scanned[k][s] + 1] = "long"
    /\ rd' = [rd EXCEPT ![k][s] = "done"]
    /\ Emit(ReaderEm(k, s), NewErrorEvent(pid[k], TRUE, k, s))
    /\ UNCHANGED <<auxVars, mgrVars, envVars, stopVars, remapVars, dispVars, codecVars, killVars, stdinVars, wireVars, procVars, written, scanned, rp, subscribers, cancelled, subFrom,
                   wire, connOpen, connVars>>

\* streamOutput on a line over the scanner's maximum: Scan returns false,
\* scanner.Err() is set, one non-fatal error event, and the reader returns
\* without draining the pipe.
StreamTooLong(k, s) ==
    /\ rd[k][s] = "scan"
    /\ EmitDone(ReaderEm(k, s))
    /\ scanned[k][s] < Len(written[k][s])
    /\ written[k][s][scanned[k][s] + 1] = "long"
    /\ rd' = [rd EXCEPT ![k][s] = "done"]
    /\ Emit(ReaderEm(k, s), NewErrorEvent(pid[k], FALSE, k, s))
    /\ UNCHANGED <<auxVars, mgrVars, envVars, stopVars, remapVars, dispVars, codecVars, killVars, stdinVars, wireVars, procVars, written, scanned, rp, subscribers, cancelled, subFrom,
                   wire, connOpen, connVars>>

\* streamOutput at end of file: the child is gone and the pipe is empty.
StreamEOF(k, s) ==
    /\ rd[k][s] = "scan"
    /\ EmitDone(ReaderEm(k, s))
    /\ child[k] = "exited"
    /\ scanned[k][s] = Len(written[k][s])
    /\ rd' = [rd EXCEPT ![k][s] = "done"]
    /\ UNCHANGED <<auxVars, mgrVars, envVars, stopVars, remapVars, dispVars, codecVars, killVars, stdinVars, wireVars, procVars, written, scanned, rp, busVars, connVars>>

\* ------------------------------------------------------------ signals
\* syscall.Signal values on Linux, as named in mapSignal and signalName.
SIGHUP == 1
SIGINT == 2
SIGQUIT == 3
SIGABRT == 6
SIGBUS == 7
SIGKILL == 9
SIGUSR1 == 10
SIGSEGV == 11
SIGUSR2 == 12
SIGPIPE == 13
SIGTERM == 15

\* A signal name is a sequence of characters; strings.ToUpper and
\* strings.TrimPrefix on such sequences.
Lower == <<"a", "b", "c", "d", "e", "f", "g", "h", "i", "j", "k", "l", "m",
           "n", "o", "p", "q", "r", "s", "t", "u", "v", "w", "x", "y", "z">>
Upper == <<"A", "B", "C", "D", "E", "F", "G", "H", "I", "J", "K", "L", "M",
           "N", "O", "P", "Q", "R", "S", "T", "U", "V", "W", "X", "Y", "Z">>
ToUpperChar(ch) ==
    IF \E i \in 1..Len(Lower) : Lower[i] = ch
    THEN Upper[CHOOSE i \in 1..Len(Lower) : Lower[i] = ch]
    ELSE ch
ToUpper(s) == [i \in 1..Len(s) |-> ToUpperChar(s[i])]
TrimPrefix(s, p) ==
    IF Len(s) >= Len(p) /\ SubSeq(s, 1, Len(p)) = p
    THEN SubSeq(s, Len(p) + 1, Len(s))
    ELSE s

\* Variant of mapSignal that strips the prefix before it folds the case.
mapSignalTrimFirst(name) ==
    LET n == ToUpper(TrimPrefix(name, <<"S", "I", "G">>))
    IN  CASE n = <<"K", "I", "L", "L">> -> SIGKILL
          [] n = <<"I", "N", "T">> -> SIGINT
          [] n = <<"Q", "U", "I", "T">> -> SIGQUIT
          [] n = <<"H", "U", "P">> -> SIGHUP
          [] n = <<"U", "S", "R", "1">> -> SIGUSR1
          [] n = <<"U", "S", "R", "2">> -> SIGUSR2
          [] OTHER -> SIGTERM

\* mapSignal (process.go:311-328).
mapSignal(name) ==
    LET n == ToUpper(TrimPrefix(ToUpper(name), <<"S", "I", "G">>))
    IN  CASE n = <<"K", "I", "L", "L">> -> SIGKILL
          [] n = <<"I", "N", "T">> -> SIGINT
          [] n = <<"Q", "U", "I", "T">> -> SIGQUIT
          [] n = <<"H", "U", "P">> -> SIGHUP
          [] n = <<"U", "S", "R", "1">> -> SIGUSR1
          [] n = <<"U", "S", "R", "2">> -> SIGUSR2
          [] OTHER -> SIGTERM

\* Variant of signalName that knows SIGKILL alone.
signalNameKillOnly(sig) ==
    IF sig = SIGKILL THEN "SIGKILL" ELSE "SIG" \o ToString(sig)

\* signalName (process.go:331-356).
signalName(sig) ==
    CASE sig = SIGTERM -> "SIGTERM"
      [] sig = SIGKILL -> "SIGKILL"
      [] sig = SIGINT -> "SIGINT"
      [] sig = SIGQUIT -> "SIGQUIT"
      [] sig = SIGHUP -> "SIGHUP"
      [] sig = SIGUSR1 -> "SIGUSR1"
      [] sig = SIGUSR2 -> "SIGUSR2"
      [] sig = SIGPIPE -> "SIGPIPE"
      [] sig = SIGABRT -> "SIGABRT"
      [] sig = SIGSEGV -> "SIGSEGV"
      [] OTHER -> "SIG" \o ToString(sig)

\* NewExitEventWithSignal; `code` of a signalled child is what
\* ExitError.ExitCode() gives, -1.
NewExitEventWithSignal(id, code, signal, k) ==
    [type |-> "exit", id |-> id, exitCode |-> code, signal |-> signal, proc |-> k]

\* The exit event the reaper builds from what c.Wait() reported
\* (process.go:206-233).
ExitEventOf(k) ==
    IF termSig[k] /= 0
    THEN NewExitEventWithSignal(pid[k], exitCode[k], signalName(termSig[k]), k)
    ELSE NewExitEvent(pid[k], exitCode[k], k)

\* ------------------------------------------------------------ the reaper
\* Variant of ReadersJoined for a reaper that does not join its readers.
ReadersNotJoined(k) == TRUE

\* wg.Wait() returns once both readers have returned (process.go:205).
ReadersJoined(k) == \A s \in Streams : ReaderDone(k, s)

\* The reaper: join the readers, c.Wait(), emit the exit event.
ReaperExit(k) ==
    /\ rp[k] = "join"
    /\ ReadersJoined(k)
    /\ child[k] = "exited"
    /\ rp' = [rp EXCEPT ![k] = "close"]
    /\ Emit(ReaperEm(k), ExitEventOf(k))
    /\ UNCHANGED <<auxVars, mgrVars, envVars, stopVars, remapVars, dispVars, codecVars, killVars, stdinVars, wireVars, procVars, written, scanned, rd, subscribers, cancelled, subFrom,
                   wire, connOpen, connVars>>

\* close(lp.done), after emit has returned (process.go:234).
ReaperClose(k) ==
    /\ rp[k] = "close"
    /\ EmitDone(ReaperEm(k))
    /\ rp' = [rp EXCEPT ![k] = "done"]
    /\ done' = [done EXCEPT ![k] = TRUE]
    /\ UNCHANGED <<auxVars, mgrVars, envVars, stopVars, remapVars, dispVars, codecVars, killVars, stdinVars, wireVars, nextID, processes, calls, reqId, num, pid, ret, child, exitCode,
                   written, scanned, rd, busVars, connVars>>

\* ------------------------------------------------------------ callbacks
\* The subscription callback of handleSubscribeEvents (handlers.go:355-382)
\* for the next connection of the emitter's snapshot: the cancelled check.
CallbackCheck(e) ==
    /\ em[e].todo /= <<>>
    /\ em[e].cb = "check"
    /\ em' = [em EXCEPT ![e] =
                IF cancelled[Head(em[e].todo)]
                THEN [@ EXCEPT !.todo = Tail(@)]
                ELSE [@ EXCEPT !.cb = "write"]]
    /\ UNCHANGED <<auxVars, mgrVars, envVars, stopVars, remapVars, dispVars, codecVars, killVars, stdinVars, wireVars, procVars, ioVars, emitted, subscribers, cancelled, subFrom, wire,
                   connOpen, connVars>>

\* The callback takes writeMu, writes the event frame and releases writeMu;
\* a failed write sets the cancelled flag.
CallbackWrite(e) ==
    LET c == Head(em[e].todo) IN
    /\ em[e].todo /= <<>>
    /\ em[e].cb = "write"
    /\ WriteFrame(c, EventFrame(em[e].ev))
    /\ cancelled' = [cancelled EXCEPT ![c] = @ \/ ~connOpen[c]]
    /\ em' = [em EXCEPT ![e] = [@ EXCEPT !.todo = Tail(@), !.cb = "check"]]
    /\ UNCHANGED <<auxVars, mgrVars, envVars, stopVars, remapVars, dispVars, codecVars, killVars, stdinVars, wireVars, procVars, ioVars, emitted, subscribers, subFrom, connOpen,
                   connVars>>

\* ------------------------------------------------------------ subscribeEvents
\* backend.SubscribeEvents: the callback takes the next slot.
SubscribeEvents(c) == Append(subscribers, c)

\* cancel(): the slot of the subscription is emptied, the others stay.
Cancel(c) == [i \in 1..Len(subscribers) |->
                IF subscribers[i] = c THEN "nil" ELSE subscribers[i]]

\* handleSubscribeEvents registers the callback ...
SubRegister(c) ==
    /\ c \in SubConns
    /\ cpc[c] = "read" /\ connOpen[c]
    /\ subscribers' = SubscribeEvents(c)
    /\ subFrom' = [subFrom EXCEPT ![c] = Len(emitted)]
    /\ cpc' = [cpc EXCEPT ![c] = "sub_ack"]
    /\ UNCHANGED <<auxVars, mgrVars, envVars, stopVars, remapVars, dispVars, codecVars, killVars, stdinVars, wireVars, procVars, ioVars, em, emitted, cancelled, wire, connOpen, cur>>

\* ... then writes the initial reply (handlers.go:389) ...
SubAck(c) ==
    /\ cpc[c] = "sub_ack"
    /\ WriteFrame(c, SuccessReply([subscribed |-> TRUE]))
    /\ cpc' = [cpc EXCEPT ![c] = "sub_loop"]
    /\ UNCHANGED <<auxVars, mgrVars, envVars, stopVars, remapVars, dispVars, codecVars, killVars, stdinVars, wireVars, procVars, ioVars, em, emitted, subscribers, cancelled, subFrom,
                   connOpen, cur>>

\* ... and blocks in ReadMessage until the read fails, then cancels.
SubReadFail(c) ==
    /\ cpc[c] = "sub_loop"
    /\ ~connOpen[c]
    /\ subscribers' = Cancel(c)
    /\ cpc' = [cpc EXCEPT ![c] = "closed"]
    /\ UNCHANGED <<auxVars, mgrVars, envVars, stopVars, remapVars, dispVars, codecVars, killVars, stdinVars, wireVars, procVars, ioVars, em, emitted, cancelled, subFrom, wire,
                   connOpen, cur>>

\* The client of a subscribed connection closes it.
ClientClose(c) ==
    /\ c \in SubConns
    /\ connOpen[c]
    /\ cpc[c] = "sub_loop"
    /\ connOpen' = [connOpen EXCEPT ![c] = FALSE]
    /\ UNCHANGED <<auxVars, mgrVars, envVars, stopVars, remapVars, dispVars, codecVars, killVars, stdinVars, wireVars, procVars, ioVars, em, emitted, subscribers, cancelled,
                   subFrom, wire, connVars>>

\* ------------------------------------------------------------ isRunning
\* pt.processes[processID] under the read lock: the record, or 0 for none.
Lookup(id) == IF id \in DOMAIN processes THEN processes[id] ELSE 0

\* Variant of IsRunning that does not look at the latch.
IsRunningIgnoresLatch(lp) == lp /= 0

\* isRunning after the lookup: false without a record, false when lp.done
\* is closed, true otherwise; never an error (process.go:428-437).
IsRunning(lp) == lp /= 0 /\ ~done[lp]

\* emit of the exit event of record lp has returned to the reaper.
ExitEmitted(lp) ==
    lp /= 0 /\ rp[lp] \in {"close", "done"} /\ EmitDone(ReaperEm(lp))

\* handleIsProcessRunning reads the request and isRunning looks the id up.
IsRunningLookup(c, id) ==
    /\ cpc[c] = "read" /\ connOpen[c]
    /\ afterExit' = [afterExit EXCEPT ![c] = ExitEmitted(Lookup(id))]
    /\ ops' = ops + 1
    /\ req' = [req EXCEPT ![c] = [op |-> "isProcessRunning", id |-> id,
                                  n |-> ops + 1]]
    /\ lq' = [lq EXCEPT ![c] = Lookup(id)]
    /\ cpc' = [cpc EXCEPT ![c] = "isr_check"]
    /\ UNCHANGED <<sigLog, shutVars, mgrVars, envVars, stopVars, remapVars, dispVars, codecVars, killVars, procVars, ioVars, busVars, cur, nwrites, cw, wgo, wproc, wres,
                   stdinMu, stdinBuf, wireVars>>

\* isRunning polls the latch and the handler writes {running: ...}.
IsRunningReply(c) ==
    /\ cpc[c] = "isr_check"
    /\ WriteFrame(c, SuccessReply([running |-> IsRunning(lq[c])]))
    /\ cpc' = [cpc EXCEPT ![c] = "read"]
    /\ UNCHANGED <<auxVars, mgrVars, envVars, stopVars, remapVars, dispVars, codecVars, killVars, procVars, ioVars, em, emitted, subscribers, cancelled, subFrom,
                   connOpen, cur, stdinVars, wireVars>>

\* ------------------------------------------------------------ writeStdin
\* The errors of writeStdin (process.go:365, 398, 416, 418).
NotFound(id) == "process " \o id \o " not found"
HasExitedError(id) == "process " \o id \o " has exited"
ExitedDuringWrite(id) == "process " \o id \o " exited during write"
WriteTimeout(id) == "stdin write timeout for process " \o id

\* The error lp.stdin.Write returns once the child is gone.
BrokenPipe == "write |1: broken pipe"

\* WriteResponse(conn, nil): a success reply without result.
Nil == [nil |-> TRUE]

\* Variant of HasExited that never sees the latch closed.
HasExitedNever(lp) == FALSE

\* The non-blocking poll of lp.done before the write (process.go:396-400).
HasExited(lp) == done[lp]

\* handleWriteStdin reads the request and writeStdin looks the id up: no
\* record, and the call fails at once.
WriteStdinLookup(c, id) ==
    /\ cpc[c] = "read" /\ connOpen[c]
    /\ afterExit' = [afterExit EXCEPT ![c] = ExitEmitted(Lookup(id))]
    /\ ops' = ops + 1
    /\ req' = [req EXCEPT ![c] = [op |-> "writeStdin", id |-> id, n |-> ops + 1]]
    /\ lq' = [lq EXCEPT ![c] = Lookup(id)]
    /\ IF Lookup(id) = 0
       THEN /\ WriteFrame(c, ErrorReply(NotFound(id)))
            /\ cpc' = cpc
       ELSE /\ wire' = wire
            /\ cpc' = [cpc EXCEPT ![c] = "ws_check"]
    /\ UNCHANGED <<sigLog, shutVars, mgrVars, envVars, stopVars, remapVars, dispVars, codecVars, killVars, procVars, ioVars, em, emitted, subscribers, cancelled, subFrom,
                   connOpen, cur, nwrites, cw, wgo, wproc, wres, stdinMu,
                   stdinBuf, wireVars>>

\* The latch is polled: closed, and the call fails; open, and the writer
\* goroutine is started and the caller goes to its select.
WriteStdinCheck(c) ==
    /\ cpc[c] = "ws_check"
    /\ IF HasExited(lq[c])
       THEN /\ WriteFrame(c, ErrorReply(HasExitedError(req[c].id)))
            /\ cpc' = [cpc EXCEPT ![c] = "read"]
            /\ UNCHANGED <<auxVars, mgrVars, envVars, stopVars, remapVars, dispVars, codecVars, killVars, nwrites, cw, wgo, wproc>>
       ELSE /\ nwrites' = nwrites + 1
            /\ cw' = [cw EXCEPT ![c] = nwrites + 1]
            /\ wgo' = [wgo EXCEPT ![nwrites + 1] = "lock"]
            /\ wproc' = [wproc EXCEPT ![nwrites + 1] = lq[c]]
            /\ cpc' = [cpc EXCEPT ![c] = "ws_select"]
            /\ wire' = wire
    /\ UNCHANGED <<auxVars, mgrVars, envVars, stopVars, remapVars, dispVars, codecVars, killVars, procVars, ioVars, em, emitted, subscribers, cancelled, subFrom,
                   connOpen, cur, ops, req, lq, wres, stdinMu, stdinBuf, wireVars>>

\* Variant of WriterLock that does not wait for lp.mu.
WriterLockNoMutex(w) ==
    /\ wgo[w] = "lock"
    /\ stdinMu' = [stdinMu EXCEPT ![wproc[w]] = w]
    /\ wgo' = [wgo EXCEPT ![w] = "write"]
    /\ UNCHANGED <<auxVars, mgrVars, envVars, stopVars, remapVars, dispVars, codecVars, killVars, procVars, ioVars, busVars, connVars, ops, req, lq, nwrites, cw,
                   wproc, wres, stdinBuf, wireVars>>

\* The writer goroutine takes lp.mu (process.go:406).
WriterLock(w) ==
    /\ wgo[w] = "lock"
    /\ stdinMu[wproc[w]] = 0
    /\ stdinMu' = [stdinMu EXCEPT ![wproc[w]] = w]
    /\ wgo' = [wgo EXCEPT ![w] = "write"]
    /\ UNCHANGED <<auxVars, mgrVars, envVars, stopVars, remapVars, dispVars, codecVars, killVars, procVars, ioVars, busVars, connVars, ops, req, lq, nwrites, cw,
                   wproc, wres, stdinBuf, wireVars>>

\* lp.stdin.Write returns: with an error once the child is gone, else when
\* the pipe has room; the result goes to ch and lp.mu is released.
WriterWrite(w) ==
    LET k == wproc[w] IN
    /\ wgo[w] = "write"
    /\ child[k] = "exited" \/ stdinBuf[k] < StdinCap
    /\ wres' = [wres EXCEPT ![w] = IF child[k] = "exited" THEN "err" ELSE "ok"]
    /\ stdinBuf' = [stdinBuf EXCEPT ![k] = IF child[k] = "exited" THEN @ ELSE @ + 1]
    /\ stdinMu' = [stdinMu EXCEPT ![k] = 0]
    /\ wgo' = [wgo EXCEPT ![w] = "done"]
    /\ UNCHANGED <<auxVars, mgrVars, envVars, stopVars, remapVars, dispVars, codecVars, killVars, procVars, ioVars, busVars, connVars, ops, req, lq, nwrites, cw,
                   wproc, wireVars>>

\* select, case res := <-ch: writeStdin returns the result of the write.
WriteStdinResult(c) ==
    /\ cpc[c] = "ws_select"
    /\ wres[cw[c]] /= "none"
    /\ WriteFrame(c, IF wres[cw[c]] = "ok" THEN SuccessReply(Nil)
                     ELSE ErrorReply(BrokenPipe))
    /\ cpc' = [cpc EXCEPT ![c] = "read"]
    /\ UNCHANGED <<auxVars, mgrVars, envVars, stopVars, remapVars, dispVars, codecVars, killVars, procVars, ioVars, em, emitted, subscribers, cancelled, subFrom,
                   connOpen, cur, stdinVars, wireVars>>

\* select, case <-lp.done.
WriteStdinExited(c) ==
    /\ cpc[c] = "ws_select"
    /\ done[lq[c]]
    /\ WriteFrame(c, ErrorReply(ExitedDuringWrite(req[c].id)))
    /\ cpc' = [cpc EXCEPT ![c] = "read"]
    /\ UNCHANGED <<auxVars, mgrVars, envVars, stopVars, remapVars, dispVars, codecVars, killVars, procVars, ioVars, em, emitted, subscribers, cancelled, subFrom,
                   connOpen, cur, stdinVars, wireVars>>

\* Variant of WriteStdinTimeout for a select without the timer case.
WriteStdinNoTimeout(c) ==
    /\ FALSE
    /\ UNCHANGED vars

\* select, case <-time.After(10 * time.Second).
WriteStdinTimeout(c) ==
    /\ cpc[c] = "ws_select"
    /\ WriteFrame(c, ErrorReply(WriteTimeout(req[c].id)))
    /\ cpc' = [cpc EXCEPT ![c] = "read"]
    /\ UNCHANGED <<auxVars, mgrVars, envVars, stopVars, remapVars, dispVars, codecVars, killVars, procVars, ioVars, em, emitted, subscribers, cancelled, subFrom,
                   connOpen, cur, stdinVars, wireVars>>

\* The child reads one write from its stdin.
ChildReadStdin(k) ==
    /\ child[k] = "running"
    /\ stdinBuf[k] > 0
    /\ stdinBuf' = [stdinBuf EXCEPT ![k] = @ - 1]
    /\ UNCHANGED <<auxVars, mgrVars, envVars, stopVars, remapVars, dispVars, codecVars, killVars, procVars, ioVars, busVars, connVars, ops, req, lq, nwrites, cw,
                   wgo, wproc, wres, stdinMu, wireVars>>

\* ------------------------------------------------------------ kill
\* The `signal` argument of kill.
KillNames == {<<>>, <<"k", "i", "l", "l">>, <<"S", "I", "G", "i", "n", "t">>,
              <<"b", "o", "g", "u", "s">>}

\* Signals a child may die of without any kill call.
SelfSignals == {SIGSEGV, SIGBUS}

\* c.Wait() has returned for the child: its pid is free for reuse.
Reaped(k) == rp[k] \in {"close", "done"}

\* syscall.Getpgid(lp.cmd.Process.Pid). The child leads its own group
\* (Setpgid, process.go:132). Once the child is reaped the pid is stale: the
\* call fails, or the pid has been given to an unrelated process and the
\* call returns that process's group.
Getpgid(k) == IF Reaped(k) THEN {"fail", "stranger"} ELSE {"own"}

\* Variant of KillTarget that signals the child alone.
KillTargetProcessOnly(pg) == "proc"

\* Where kill sends the signal, given what Getpgid returned
\* (process.go:299-304): the group, or the process when the lookup failed.
KillTarget(pg) == IF pg = "fail" THEN "proc" ELSE pg

\* kill: the lookup; without a record the call fails and sends nothing.
KillLookup(c, id, name) ==
    /\ cpc[c] = "read" /\ connOpen[c]
    /\ kills' = kills + 1
    /\ req' = [req EXCEPT ![c] = [op |-> "kill", id |-> id, n |-> kills + 1]]
    /\ lq' = [lq EXCEPT ![c] = Lookup(id)]
    /\ ksig' = [ksig EXCEPT ![c] = mapSignal(name)]
    /\ IF Lookup(id) = 0
       THEN /\ WriteFrame(c, ErrorReply(NotFound(id)))
            /\ cpc' = cpc
       ELSE /\ wire' = wire
            /\ cpc' = [cpc EXCEPT ![c] = "kill_pgid"]
    /\ UNCHANGED <<auxVars, mgrVars, envVars, stopVars, remapVars, dispVars, codecVars, procVars, ioVars, em, emitted, subscribers, cancelled, subFrom,
                   connOpen, cur, ops, nwrites, cw, wgo, wproc, wres, stdinMu,
                   stdinBuf, wireVars, termSig, got, sent, kpg>>

\* kill: the process-group lookup.
KillGetpgid(c) ==
    /\ cpc[c] = "kill_pgid"
    /\ \E pg \in Getpgid(lq[c]) : kpg' = [kpg EXCEPT ![c] = pg]
    /\ cpc' = [cpc EXCEPT ![c] = "kill_send"]
    /\ UNCHANGED <<auxVars, mgrVars, envVars, stopVars, remapVars, dispVars, codecVars, procVars, ioVars, busVars, cur, stdinVars, wireVars, termSig,
                   got, sent, kills, ksig>>

\* kill: syscall.Kill(-pgid, sig), or lp.cmd.Process.Signal(sig), which
\* sends nothing once c.Wait() has returned; then the success reply. A
\* signal sent to the child's group reaches the child while it runs.
KillSend(c) ==
    LET k == lq[c]
        to == KillTarget(kpg[c])
        delivered == IF to = "proc" THEN ~Reaped(k) ELSE TRUE
    IN  /\ cpc[c] = "kill_send"
        /\ sent' = Append(sent, [n |-> req[c].n, proc |-> k, to |-> to,
                                 sig |-> ksig[c], delivered |-> delivered])
        /\ got' = [got EXCEPT ![k] =
                    IF to \in {"own", "proc"} /\ delivered /\ child[k] = "running"
                    THEN @ \cup {ksig[c]} ELSE @]
        /\ WriteFrame(c, SuccessReply(Nil))
        /\ cpc' = [cpc EXCEPT ![c] = "read"]
        /\ UNCHANGED <<auxVars, mgrVars, envVars, stopVars, remapVars, dispVars, codecVars, procVars, ioVars, em, emitted, subscribers, cancelled,
                       subFrom, connOpen, cur, stdinVars, wireVars, termSig, kills,
                       ksig, kpg>>

\* The child is terminated by a signal: one that kill delivered, or one of
\* its own making.
ChildSignalled(k, sig) ==
    /\ child[k] = "running"
    /\ sig \in got[k] \cup SelfSignals
    /\ child' = [child EXCEPT ![k] = "exited"]
    /\ termSig' = [termSig EXCEPT ![k] = sig]
    /\ exitCode' = [exitCode EXCEPT ![k] = -1]
    /\ UNCHANGED <<auxVars, mgrVars, envVars, stopVars, remapVars, dispVars, codecVars, nextID, processes, calls, reqId, num, pid, ret, done, ioVars,
                   busVars, connVars, stdinVars, wireVars, got, sent, kills, ksig,
                   kpg>>

\* ------------------------------------------------------------ the system
Next ==
    \/ \E c \in CmdConns, id \in SpawnIds :
            calls < MaxSpawns /\ SpawnAssignId(c, id)
    \/ \E c \in CmdConns : SpawnStartFail(c)
    \/ \E c \in CmdConns : SpawnFailReply(c)
    \/ \E c \in CmdConns : SpawnStartOk(c)
    \/ \E c \in CmdConns : SpawnInsert(c)
    \/ \E k \in Procs, s \in Streams, kind \in LineKinds : ChildWrite(k, s, kind)
    \/ \E k \in Procs, code \in ExitCodes : ChildExit(k, code)
    \/ \E k \in Procs, s \in Streams : StreamLine(k, s)
    \/ \E k \in Procs, s \in Streams : StreamTooLong(k, s)
    \/ \E k \in Procs, s \in Streams : StreamEOF(k, s)
    \/ \E k \in Procs : ReaperExit(k)
    \/ \E k \in Procs : ReaperClose(k)
    \/ \E e \in Emitters : CallbackCheck(e)
    \/ \E e \in Emitters : CallbackWrite(e)
    \/ \E c \in SubConns : SubRegister(c)
    \/ \E c \in SubConns : SubAck(c)
    \/ \E c \in SubConns : SubReadFail(c)
    \/ \E c \in SubConns : ClientClose(c)

Spec == Init /\ [][Next]_vars

\* The same with the service's goroutines scheduled: the spawn call, the
\* readers, the reaper and the callbacks an emitter calls take their next
\* step when they can. The child and the clients owe nothing.
SpecFair ==
    /\ Spec
    /\ \A c \in CmdConns : WF_vars(SpawnInsert(c))
    /\ \A k \in Procs :
          /\ WF_vars(ReaperExit(k)) /\ WF_vars(ReaperClose(k))
          /\ \A s \in Streams :
                /\ WF_vars(StreamLine(k, s)) /\ WF_vars(StreamTooLong(k, s))
                /\ WF_vars(StreamEOF(k, s))
    /\ \A e \in Emitters : WF_vars(CallbackCheck(e)) /\ WF_vars(CallbackWrite(e))

\* ------------------------------------------------------------ spawn alone
\* The spawn calls of two connections, for the ids they hand out and the
\* registry they leave.
NextIds ==
    \/ \E c \in CmdConns, id \in SpawnIds :
            calls < MaxCalls /\ SpawnAssignId(c, id)
    \/ \E c \in CmdConns : SpawnStartFail(c)
    \/ \E c \in CmdConns : SpawnFailReply(c)
    \/ \E c \in CmdConns : SpawnStartOk(c)
    \/ \E c \in CmdConns : SpawnInsert(c)

SpecIds == Init /\ [][NextIds]_vars

\* ------------------------------------------------------------ stdin
\* One child without output, and the requests that look at it or write to
\* its stdin while it runs, exits and is reaped.
NextStdin ==
    \/ \E c \in CmdConns, id \in SpawnIds :
            calls < MaxSpawns /\ SpawnAssignId(c, id)
    \/ \E c \in CmdConns : SpawnStartFail(c)
    \/ \E c \in CmdConns : SpawnFailReply(c)
    \/ \E c \in CmdConns : SpawnStartOk(c)
    \/ \E c \in CmdConns : SpawnInsert(c)
    \/ \E k \in Procs, code \in ExitCodes : ChildExit(k, code)
    \/ \E k \in Procs, s \in Streams : StreamEOF(k, s)
    \/ \E k \in Procs : ReaperExit(k)
    \/ \E k \in Procs : ReaperClose(k)
    \/ \E k \in Procs : ChildReadStdin(k)
    \/ \E c \in CmdConns, id \in QueryIds :
            ops < MaxOps /\ IsRunningLookup(c, id)
    \/ \E c \in CmdConns : IsRunningReply(c)
    \/ \E c \in CmdConns, id \in QueryIds :
            ops < MaxOps /\ WriteStdinLookup(c, id)
    \/ \E c \in CmdConns : WriteStdinCheck(c)
    \/ \E w \in Writes : WriterLock(w)
    \/ \E w \in Writes : WriterWrite(w)
    \/ \E c \in CmdConns : WriteStdinResult(c)
    \/ \E c \in CmdConns : WriteStdinExited(c)
    \/ \E c \in CmdConns : WriteStdinTimeout(c)

\* A select with a ready case takes one, its timer fires, and the Go
\* scheduler runs a writer goroutine that can take a step; the child owes
\* nothing.
SpecStdin ==
    /\ Init /\ [][NextStdin]_vars
    /\ \A c \in CmdConns :
        /\ WF_vars(WriteStdinResult(c))
        /\ WF_vars(WriteStdinExited(c))
        /\ WF_vars(WriteStdinTimeout(c))
    /\ \A w \in Writes : WF_vars(WriterLock(w)) /\ WF_vars(WriterWrite(w))

\* ------------------------------------------------------------ kill and exit
\* One child without output that exits or is terminated by a signal, and
\* the kill calls of two connections.
NextKill ==
    \/ \E c \in CmdConns, id \in SpawnIds :
            calls < MaxSpawns /\ SpawnAssignId(c, id)
    \/ \E c \in CmdConns : SpawnStartFail(c)
    \/ \E c \in CmdConns : SpawnFailReply(c)
    \/ \E c \in CmdConns : SpawnStartOk(c)
    \/ \E c \in CmdConns : SpawnInsert(c)
    \/ \E k \in Procs, code \in ExitCodes : ChildExit(k, code)
    \/ \E k \in Procs : \E sig \in got[k] \cup SelfSignals : ChildSignalled(k, sig)
    \/ \E k \in Procs, s \in Streams : StreamEOF(k, s)
    \/ \E k \in Procs : ReaperExit(k)
    \/ \E k \in Procs : ReaperClose(k)
    \/ \E c \in CmdConns, id \in QueryIds, name \in KillNames :
            kills < MaxKills /\ KillLookup(c, id, name)
    \/ \E c \in CmdConns : KillGetpgid(c)
    \/ \E c \in CmdConns : KillSend(c)

SpecKill == Init /\ [][NextKill]_vars

\* ------------------------------------------------------------ the codec
\* 10 MB, the largest payload ReadMessage accepts (protocol.go:42).
MaxMessageSize == 10485760

\* The payload of task t: one or two bytes, different for every task.
Payload(t) == [i \in 1..(1 + (t % 2)) |-> (10 * t) + i]

\* binary.BigEndian.PutUint32 and binary.BigEndian.Uint32.
PutUint32(n) == <<(n \div 16777216) % 256, (n \div 65536) % 256,
                  (n \div 256) % 256, n % 256>>
Uint32(b) == b[1] * 16777216 + b[2] * 65536 + b[3] * 256 + b[4]

\* Variant of WriteBuffers that writes the header and the payload apart.
WriteBuffersHeaderThenPayload(data) == <<PutUint32(Len(data)), data>>

\* WriteMessage: the buffers it passes to conn.Write, in order. Header and
\* payload are one buffer (protocol.go:58-61).
WriteBuffers(data) == <<PutUint32(Len(data)) \o data>>

\* A task calls WriteMessage with its payload.
WriteMessage(t) ==
    /\ task[t] = "ready"
    /\ bufs' = [bufs EXCEPT ![t] = WriteBuffers(Payload(t))]
    /\ task' = [task EXCEPT ![t] = "writing"]
    /\ UNCHANGED <<auxVars, mgrVars, envVars, stopVars, remapVars, dispVars, codecVars, killVars, procVars, ioVars, busVars, connVars, stdinVars, stream>>

\* conn.Write(buf): the bytes of one call reach the stream together; the
\* task returns after its last buffer.
ConnWrite(t) ==
    /\ task[t] = "writing"
    /\ stream' = stream \o Head(bufs[t])
    /\ bufs' = [bufs EXCEPT ![t] = Tail(@)]
    /\ task' = [task EXCEPT ![t] = IF Len(bufs[t]) = 1 THEN "done" ELSE "writing"]
    /\ UNCHANGED <<auxVars, mgrVars, envVars, stopVars, remapVars, dispVars, codecVars, killVars, procVars, ioVars, busVars, connVars, stdinVars>>

\* ReadMessage applied to the stream until it fails or runs out of bytes:
\* the payloads it returns and the bytes it leaves.
RECURSIVE ReadMessages(_)
ReadMessages(b) ==
    IF Len(b) < 4 THEN [frames |-> <<>>, rest |-> b]
    ELSE LET length == Uint32(b)
         IN  IF length = 0 \/ length > MaxMessageSize \/ Len(b) < 4 + length
             THEN [frames |-> <<>>, rest |-> b]
             ELSE LET r == ReadMessages(SubSeq(b, 5 + length, Len(b)))
                  IN  [frames |-> <<SubSeq(b, 5, 4 + length)>> \o r.frames,
                       rest |-> r.rest]

NextWire ==
    \/ \E t \in Tasks : WriteMessage(t)
    \/ \E t \in Tasks : ConnWrite(t)

SpecWire == Init /\ [][NextWire]_vars

\* ------------------------------------------------------------ byte strings
\* A byte string of any length, as a sequence of runs [b, n]: n bytes of
\* value b.
RECURSIVE BLen(_)
BLen(r) == IF r = <<>> THEN 0 ELSE r[1].n + BLen(Tail(r))

\* The first n bytes of r, and r without them.
RECURSIVE BTake(_, _)
BTake(r, n) ==
    IF n = 0 \/ r = <<>> THEN <<>>
    ELSE IF r[1].n <= n THEN <<r[1]>> \o BTake(Tail(r), n - r[1].n)
    ELSE <<[b |-> r[1].b, n |-> n]>>
RECURSIVE BDrop(_, _)
BDrop(r, n) ==
    IF n = 0 \/ r = <<>> THEN r
    ELSE IF r[1].n <= n THEN BDrop(Tail(r), n - r[1].n)
    ELSE <<[b |-> r[1].b, n |-> r[1].n - n]>> \o Tail(r)

\* The same bytes with adjacent runs of one value merged.
RECURSIVE Norm(_)
Norm(r) ==
    IF r = <<>> THEN <<>>
    ELSE IF r[1].n = 0 THEN Norm(Tail(r))
    ELSE IF Len(r) >= 2 /\ r[2].b = r[1].b
         THEN Norm(<<[b |-> r[1].b, n |-> r[1].n + r[2].n]>> \o Tail(Tail(r)))
    ELSE <<r[1]>> \o Norm(Tail(r))

\* A short byte string written out, and back.
RECURSIVE Bytes(_)
Bytes(r) ==
    IF r = <<>> THEN <<>>
    ELSE IF r[1].n = 0 THEN Bytes(Tail(r))
    ELSE <<r[1].b>> \o Bytes(<<[b |-> r[1].b, n |-> r[1].n - 1]>> \o Tail(r))
Runs(bytes) == [i \in 1..Len(bytes) |-> [b |-> bytes[i], n |-> 1]]

\* ------------------------------------------------------------ frames
\* The payloads a client frames: empty, one byte, 258 bytes, 10 MiB, one
\* byte more.
ClientPayloads ==
    {<<>>,
     <<[b |-> 7, n |-> 1]>>,
     <<[b |-> 1, n |-> 1], [b |-> 2, n |-> 257]>>,
     <<[b |-> 3, n |-> MaxMessageSize]>>,
     <<[b |-> 4, n |-> MaxMessageSize + 1]>>}

\* The sizes of the next piece in which the rest of a frame may reach the
\* socket: the stream cuts a frame of L bytes after byte 1, 3, 4, 5, L - 1
\* or L.
PieceSizes(rest, L) ==
    {k - (L - rest) : k \in {k \in {1, 3, 4, 5, L - 1, L} : k > L - rest}}

\* Variant of FrameOf with the length in little-endian order.
FrameOfLittleEndian(data) ==
    LET h == PutUint32(BLen(data))
    IN  Norm(Runs(<<h[4], h[3], h[2], h[1]>>) \o data)

\* The bytes WriteMessage puts on the wire for data: the 4-byte big-endian
\* length, then data (protocol.go:58-60).
FrameOf(data) == Norm(Runs(PutUint32(BLen(data))) \o data)

\* The client starts to send the frame of a payload.
ClientBegin(data) ==
    /\ outgoing = <<>> /\ ~inEof
    /\ begun' = Append(begun, data)
    /\ outgoing' = FrameOf(data)
    /\ UNCHANGED <<auxVars, mgrVars, envVars, stopVars, remapVars, dispVars, procVars, ioVars, busVars, connVars, stdinVars, wireVars,
                   killVars, inbuf, inEof, readLog, rstate, rlen, consumed>>

\* The next piece of the frame reaches the server's socket: n bytes, or
\* what is left of the frame.
ClientSend(n) ==
    /\ outgoing /= <<>> /\ ~inEof
    /\ inbuf' = Norm(inbuf \o BTake(outgoing, n))
    /\ outgoing' = BDrop(outgoing, n)
    /\ UNCHANGED <<auxVars, mgrVars, envVars, stopVars, remapVars, dispVars, procVars, ioVars, busVars, connVars, stdinVars, wireVars,
                   killVars, begun, inEof, readLog, rstate, rlen, consumed>>

\* The client closes its end, whatever it has sent.
ClientEOF ==
    /\ ~inEof
    /\ inEof' = TRUE
    /\ UNCHANGED <<auxVars, mgrVars, envVars, stopVars, remapVars, dispVars, procVars, ioVars, busVars, connVars, stdinVars, wireVars,
                   killVars, begun, outgoing, inbuf, readLog, rstate, rlen,
                   consumed>>

\* The results of ReadMessage.
ReadOk(payload) == [ok |-> TRUE, payload |-> payload]
ReadError(err) == [ok |-> FALSE, err |-> err]

\* Variant of LengthError without the upper limit.
LengthErrorZeroOnly(length) == IF length = 0 THEN "zero-length message" ELSE ""

\* ReadMessage's checks of the declared length (protocol.go:39-44): the
\* error, or "" when the length is accepted.
LengthError(length) ==
    IF length = 0 THEN "zero-length message"
    ELSE IF length > MaxMessageSize THEN "message too large"
    ELSE ""

\* ReadMessage, io.ReadFull of the 4-byte length prefix: it returns when
\* four bytes have arrived or the stream has ended.
ReadHeader ==
    /\ rstate = "header"
    /\ BLen(inbuf) >= 4 \/ inEof
    /\ IF BLen(inbuf) < 4
       THEN /\ readLog' = Append(readLog, ReadError("reading length prefix"))
            /\ consumed' = consumed + BLen(inbuf)
            /\ inbuf' = <<>>
            /\ rstate' = "failed"
            /\ rlen' = rlen
       ELSE LET length == Uint32(Bytes(BTake(inbuf, 4))) IN
            /\ consumed' = consumed + 4
            /\ inbuf' = BDrop(inbuf, 4)
            /\ rlen' = length
            /\ IF LengthError(length) /= ""
               THEN /\ readLog' = Append(readLog, ReadError(LengthError(length)))
                    /\ rstate' = "failed"
               ELSE /\ readLog' = readLog
                    /\ rstate' = "payload"
    /\ UNCHANGED <<auxVars, mgrVars, envVars, stopVars, remapVars, dispVars, procVars, ioVars, busVars, connVars, stdinVars, wireVars,
                   killVars, begun, outgoing, inEof>>

\* ReadMessage, io.ReadFull of the payload; after a payload the caller
\* reads the next message.
ReadPayload ==
    /\ rstate = "payload"
    /\ BLen(inbuf) >= rlen \/ inEof
    /\ IF BLen(inbuf) < rlen
       THEN /\ readLog' = Append(readLog, ReadError("reading payload"))
            /\ consumed' = consumed + BLen(inbuf)
            /\ inbuf' = <<>>
            /\ rstate' = "failed"
       ELSE /\ readLog' = Append(readLog, ReadOk(Norm(BTake(inbuf, rlen))))
            /\ consumed' = consumed + rlen
            /\ inbuf' = BDrop(inbuf, rlen)
            /\ rstate' = "header"
    /\ UNCHANGED <<auxVars, mgrVars, envVars, stopVars, remapVars, dispVars, procVars, ioVars, busVars, connVars, stdinVars, wireVars,
                   killVars, begun, outgoing, inEof, rlen>>

NextCodec ==
    \/ \E data \in ClientPayloads : Len(begun) < MaxFrames /\ ClientBegin(data)
    \/ /\ outgoing /= <<>>
       /\ \E n \in PieceSizes(BLen(outgoing),
                                BLen(FrameOf(begun[Len(begun)]))) :
              ClientSend(n)
    \/ ClientEOF
    \/ ReadHeader
    \/ ReadPayload

SpecCodec == Init /\ [][NextCodec]_vars

\* ------------------------------------------------------------ JSON
\* The payload of a frame: bytes that are not JSON, or a JSON value. An
\* object is the sequence of its <<key, value>> members.
JInvalid == [t |-> "invalid"]
JNull == [t |-> "null"]
JStr(v) == [t |-> "string", v |-> v]
JNum(v) == [t |-> "number", v |-> v]
JBool(v) == [t |-> "bool", v |-> v]
JArr(items) == [t |-> "array", items |-> items]
JObj(members) == [t |-> "object", members |-> members]

\* A json.RawMessage that was never set (nil).
Absent == [t |-> "absent"]

\* The value of member key of an object, Absent without one; of two members
\* with the same key the later one counts.
RECURSIVE Member(_, _)
Member(members, key) ==
    IF members = <<>> THEN Absent
    ELSE IF members[Len(members)][1] = key THEN members[Len(members)][2]
    ELSE Member(SubSeq(members, 1, Len(members) - 1), key)

\* The parameter structs of handlers.go:79-130: the JSON keys and Go types
\* of their fields, in order, and the name of the struct.
configureParams ==
    [name |-> "configureParams",
     fields |-> << <<"memory", "int">>, <<"cpus", "int">> >>]
vmNameParams ==
    [name |-> "vmNameParams", fields |-> << <<"name", "string">> >>]
spawnParams ==
    [name |-> "spawnParams",
     fields |-> << <<"name", "string">>, <<"id", "string">>,
                   <<"command", "string">>, <<"args", "[]string">>,
                   <<"env", "map[string]string">>, <<"cwd", "string">>,
                   <<"additionalMounts", "map[string]pipe.additionalMount">> >>]
processIDParams ==
    [name |-> "processIDParams", fields |-> << <<"id", "string">> >>]
writeStdinParams ==
    [name |-> "writeStdinParams",
     fields |-> << <<"id", "string">>, <<"data", "string">> >>]
mountPathParams ==
    [name |-> "mountPathParams",
     fields |-> << <<"name", "string">>, <<"hostPath", "string">>,
                   <<"guestPath", "string">> >>]
readFileParams ==
    [name |-> "readFileParams",
     fields |-> << <<"name", "string">>, <<"path", "string">> >>]
oauthTokenParams ==
    [name |-> "oauthTokenParams",
     fields |-> << <<"name", "string">>, <<"token", "string">> >>]
debugLoggingParams ==
    [name |-> "debugLoggingParams", fields |-> << <<"enabled", "bool">> >>]
noParams == [name |-> "", fields |-> <<>>]

\* The JSON type a Go type decodes from, and the Go type's zero value.
JsonTypeOf(gotype) ==
    CASE gotype = "int" -> "number"
      [] gotype = "string" -> "string"
      [] gotype = "bool" -> "bool"
      [] gotype = "[]string" -> "array"
      [] OTHER -> "object"
ZeroOf(gotype) ==
    CASE gotype = "int" -> 0
      [] gotype = "string" -> ""
      [] gotype = "bool" -> FALSE
      [] OTHER -> <<>>

\* The Go value a JSON value of the right type decodes to.
GoValue(j) ==
    CASE j.t = "array" -> j.items
      [] j.t = "object" -> j.members
      [] OTHER -> j.v

\* json.Unmarshal's error for a member of the wrong type, and for a value
\* that is no object.
FieldTypeError(j, struct, field) ==
    "json: cannot unmarshal " \o j.t \o " into Go struct field " \o struct.name
        \o "." \o field[1] \o " of type " \o field[2]
ValueTypeError(j, struct) ==
    "json: cannot unmarshal " \o j.t \o " into Go value of type pipe."
        \o struct.name
UnexpectedEnd == "unexpected end of JSON input"

\* The fields of struct whose member in the object has the wrong type.
Mismatched(members, struct) ==
    {i \in 1..Len(struct.fields) :
        Member(members, struct.fields[i][1]).t
            \notin {"absent", "null", JsonTypeOf(struct.fields[i][2])}}

\* The struct after decoding an object into it: a member of the right type
\* sets its field, every other field keeps the zero value.
Decoded(members, struct) ==
    [key \in {struct.fields[i][1] : i \in 1..Len(struct.fields)} |->
        LET i == CHOOSE i \in 1..Len(struct.fields) : struct.fields[i][1] = key
            j == Member(members, key)
        IN  IF j.t = JsonTypeOf(struct.fields[i][2]) THEN GoValue(j)
            ELSE ZeroOf(struct.fields[i][2])]

\* json.Unmarshal(raw, &p) for p of a parameter struct: the error ("" for
\* nil) and p afterwards.
Unmarshal(raw, struct) ==
    CASE raw.t = "absent" ->
            [err |-> UnexpectedEnd, p |-> Decoded(<<>>, struct)]
      [] raw.t = "null" -> [err |-> "", p |-> Decoded(<<>>, struct)]
      [] raw.t = "object" ->
            [err |-> IF Mismatched(raw.members, struct) = {} THEN ""
                     ELSE LET i == CHOOSE i \in Mismatched(raw.members, struct) :
                                     \A k \in Mismatched(raw.members, struct) : i <= k
                          IN  FieldTypeError(Member(raw.members, struct.fields[i][1]),
                                             struct, struct.fields[i]),
             p |-> Decoded(raw.members, struct)]
      [] OTHER -> [err |-> ValueTypeError(raw, struct), p |-> Decoded(<<>>, struct)]

\* json.Unmarshal(payload, &req) for the Request of protocol.go:13-17:
\* whether it succeeded, and req.Method and req.Params afterwards.
UnmarshalRequest(payload) ==
    CASE payload.t = "null" -> [ok |-> TRUE, Method |-> "", Params |-> Absent]
      [] payload.t = "object" ->
            LET method == Member(payload.members, "method") IN
            [ok |-> method.t \in {"absent", "null", "string"},
             Method |-> IF method.t = "string" THEN method.v ELSE "",
             Params |-> Member(payload.members, "params")]
      [] OTHER -> [ok |-> FALSE, Method |-> "", Params |-> Absent]

\* ------------------------------------------------------------ dispatch
\* The cases of Handle's switch (handlers.go:37-71).
Methods ==
    {"configure", "createVM", "startVM", "stopVM", "isRunning",
     "isGuestConnected", "spawn", "kill", "writeStdin", "isProcessRunning",
     "mountPath", "readFile", "installSdk", "addApprovedOauthToken",
     "setDebugLogging", "subscribeEvents", "getDownloadStatus"}

\* The parameter struct each handler decodes into.
ParamsOf(method) ==
    CASE method = "configure" -> configureParams
      [] method \in {"createVM", "startVM", "stopVM", "isRunning",
                     "isGuestConnected", "installSdk", "subscribeEvents"} ->
            vmNameParams
      [] method = "spawn" -> spawnParams
      [] method \in {"kill", "isProcessRunning"} -> processIDParams
      [] method = "writeStdin" -> writeStdinParams
      [] method = "mountPath" -> mountPathParams
      [] method = "readFile" -> readFileParams
      [] method = "addApprovedOauthToken" -> oauthTokenParams
      [] method = "setDebugLogging" -> debugLoggingParams
      [] OTHER -> noParams

\* Variant of IgnoresParamErrors: every handler checks the decoding.
IgnoresParamErrorsNever(method) == FALSE

\* The handlers that decode params only when present and drop the error
\* (handlers.go:186-188, 199-201, 346-348), or decode nothing (402).
IgnoresParamErrors(method) ==
    method \in {"isRunning", "isGuestConnected", "subscribeEvents",
                "getDownloadStatus"}

\* The backend operations that return no error (server.go:27, 29).
NeverFails(method) == method \in {"setDebugLogging", "getDownloadStatus"}

\* What a backend operation may return: an error or none, and the value.
BackendOutcomes ==
    {[err |-> "", flag |-> TRUE], [err |-> "", flag |-> FALSE],
     [err |-> "backend failure", flag |-> FALSE]}

\* The result a handler puts in its success reply.
ResultOf(method, p, out) ==
    CASE method \in {"isRunning", "isProcessRunning"} -> [running |-> out.flag]
      [] method = "isGuestConnected" -> [connected |-> out.flag]
      [] method = "spawn" -> [id |-> IF p.id /= "" THEN p.id ELSE "proc-1"]
      [] method = "readFile" -> [data |-> "contents"]
      [] method = "subscribeEvents" -> [subscribed |-> TRUE]
      [] method = "getDownloadStatus" ->
            [status |-> IF out.flag THEN "Ready" ELSE "NotDownloaded"]
      [] OTHER -> Nil

\* Variant of MethodNotFound that names no method.
MethodNotFoundBare(method) == "Method not found"

\* The messages of Handle's failures (handlers.go:29, 73, 135).
ParseError == "Parse error"
MethodNotFound(method) == "Method not found: " \o method
InvalidParams(detail) == "Invalid params: " \o detail

\* Variant of ParseFailure that ends the connection's handler without reply.
ParseFailureSilent == [reply |-> <<>>, call |-> <<>>, subscribed |-> FALSE]

\* Handle when the payload does not decode (handlers.go:25-31).
ParseFailure ==
    [reply |-> <<ErrorReply(ParseError)>>, call |-> <<>>, subscribed |-> FALSE]

\* Variant of HandleMethod that goes on to the success reply after the
\* failure reply for a backend error.
HandleMethodNoReturn(method, raw, out) ==
    LET u == Unmarshal(raw, ParamsOf(method))
        failed == out.err /= "" /\ ~NeverFails(method)
    IN  IF u.err /= "" /\ ~IgnoresParamErrors(method)
        THEN [reply |-> <<ErrorReply(InvalidParams(u.err))>>, call |-> <<>>,
              subscribed |-> FALSE]
        ELSE [reply |-> IF failed
                        THEN <<ErrorReply(out.err),
                               SuccessReply(ResultOf(method, u.p, out))>>
                        ELSE <<SuccessReply(ResultOf(method, u.p, out))>>,
              call |-> <<[method |-> method, p |-> u.p]>>,
              subscribed |-> method = "subscribeEvents" /\ ~failed]

\* One handleXxx function: the reply it writes, the backend operation it
\* invokes if any, and whether it goes on as a subscription.
HandleMethod(method, raw, out) ==
    LET u == Unmarshal(raw, ParamsOf(method))
        failed == out.err /= "" /\ ~NeverFails(method)
    IN  IF u.err /= "" /\ ~IgnoresParamErrors(method)
        THEN [reply |-> <<ErrorReply(InvalidParams(u.err))>>, call |-> <<>>,
              subscribed |-> FALSE]
        ELSE [reply |-> <<IF failed THEN ErrorReply(out.err)
                          ELSE SuccessReply(ResultOf(method, u.p, out))>>,
              call |-> <<[method |-> method, p |-> u.p]>>,
              subscribed |-> method = "subscribeEvents" /\ ~failed]

\* Handler.Handle (handlers.go:23-75).
Handle(payload, out) ==
    LET r == UnmarshalRequest(payload) IN
    IF ~r.ok THEN ParseFailure
    ELSE IF r.Method \notin Methods
    THEN [reply |-> <<ErrorReply(MethodNotFound(r.Method))>>, call |-> <<>>,
          subscribed |-> FALSE]
    ELSE HandleMethod(r.Method, r.Params, out)

\* A params object with every field of the struct, of the right type; and
\* one whose first field has the wrong type.
SampleOf(gotype) ==
    CASE gotype = "int" -> JNum(2)
      [] gotype = "string" -> JStr("x")
      [] gotype = "bool" -> JBool(TRUE)
      [] gotype = "[]string" -> JArr(<<"a">>)
      [] OTHER -> JObj(<<>>)
GoodParams(struct) ==
    JObj([i \in 1..Len(struct.fields) |->
            <<struct.fields[i][1], SampleOf(struct.fields[i][2])>>])
BadParams(struct) ==
    JObj([i \in 1..Len(struct.fields) |->
            <<struct.fields[i][1],
              IF i > 1 THEN SampleOf(struct.fields[i][2])
              ELSE IF struct.fields[i][2] = "string" THEN JNum(5) ELSE JStr("x")>>])

\* Params a client sends with any method: none, null, a string, {}.
GenericParams == {Absent, JNull, JStr("x"), JObj(<<>>)}

\* A request object.
Request(method, params) ==
    JObj(IF params = Absent THEN << <<"method", JStr(method)>>, <<"id", JNum(1)>> >>
         ELSE << <<"method", JStr(method)>>, <<"params", params>>,
                 <<"id", JNum(1)>> >>)

\* The payloads a client sends.
ClientRequests ==
    {JInvalid, JNull, JArr(<<>>), JObj(<<>>), JObj(<< <<"method", JNum(5)>> >>)}
    \cup {Request(method, params) :
             method \in Methods \cup {"frobnicate"}, params \in GenericParams}
    \cup {Request(method, GoodParams(ParamsOf(method))) : method \in Methods}
    \cup {Request(method, BadParams(ParamsOf(method))) : method \in Methods}

\* The payloads the client of connection c sends next: the first request
\* on connection B is any of ClientRequests, every other one a valid
\* request, a subscription or bytes that are not JSON.
FollowUps ==
    {JInvalid, Request("isProcessRunning", GoodParams(processIDParams)),
     Request("subscribeEvents", Absent)}
RequestsOn(c) ==
    IF c = "B" /\ lastRead[c].n = 0 THEN ClientRequests ELSE FollowUps

\* The ways ReadMessage fails.
ReadFailures == {"eof", "zero-length", "too large"}

\* acceptLoop: a client connects and gets its worker (server.go:91-103).
Accept(c) ==
    /\ listener = "open"
    /\ served[c] = "none"
    /\ served' = [served EXCEPT ![c] = "open"]
    /\ UNCHANGED <<auxVars, mgrVars, envVars, stopVars, remapVars, procVars, ioVars, busVars, connVars, stdinVars, wireVars,
                   killVars, codecVars, listener, lastRead, nframes, backendLog,
                   failures>>

\* handleConnection reads a frame and Handle answers it (server.go:124-132).
HandleFrame(c, payload, out) ==
    LET h == Handle(payload, out) IN
    /\ served[c] = "open" /\ connOpen[c]
    /\ nframes' = nframes + 1
    /\ lastRead' = [lastRead EXCEPT ![c] = [payload |-> payload, n |-> nframes']]
    /\ backendLog' = backendLog \o [i \in 1..Len(h.call) |->
                                      [conn |-> c, call |-> h.call[i],
                                       out |-> out]]
    /\ wire' = [wire EXCEPT ![c] = @ \o h.reply]
    /\ served' = [served EXCEPT ![c] = IF h.subscribed THEN "subscribed" ELSE @]
    /\ UNCHANGED <<auxVars, mgrVars, envVars, stopVars, remapVars, procVars, ioVars, connVars, stdinVars, wireVars, killVars,
                   codecVars, listener, failures, em, emitted, subscribers,
                   cancelled, subFrom, connOpen>>

\* handleConnection when ReadMessage fails: the worker returns and its
\* deferred conn.Close() runs (server.go:109, 125-130). After the client
\* has closed its end, every read fails with EOF.
ReadFail(c, failure) ==
    /\ served[c] = "open"
    /\ connOpen[c] \/ failure = "eof"
    /\ nframes' = nframes + 1
    /\ lastRead' = [lastRead EXCEPT ![c] = [failure |-> failure, n |-> nframes']]
    /\ failures' = [failures EXCEPT ![c] = @ + 1]
    /\ served' = [served EXCEPT ![c] = "closed"]
    /\ connOpen' = [connOpen EXCEPT ![c] = FALSE]
    /\ UNCHANGED <<auxVars, mgrVars, envVars, stopVars, remapVars, procVars, ioVars, connVars, stdinVars, wireVars, killVars,
                   codecVars, listener, backendLog, em, emitted, subscribers,
                   cancelled, subFrom, wire>>

\* The read loop of handleSubscribeEvents (handlers.go:393-398): a frame is
\* read and dropped.
SubscribedRead(c, payload) ==
    /\ served[c] = "subscribed" /\ connOpen[c]
    /\ nframes' = nframes + 1
    /\ lastRead' = [lastRead EXCEPT ![c] = [payload |-> payload, n |-> nframes']]
    /\ UNCHANGED <<auxVars, mgrVars, envVars, stopVars, remapVars, procVars, ioVars, busVars, connVars, stdinVars, wireVars,
                   killVars, codecVars, listener, served, backendLog, failures>>

\* The read loop of handleSubscribeEvents when ReadMessage fails: cancel()
\* and return to handleConnection's loop (handlers.go:394-397).
SubscribedReadFail(c, failure) ==
    /\ served[c] = "subscribed" /\ connOpen[c]
    /\ nframes' = nframes + 1
    /\ lastRead' = [lastRead EXCEPT ![c] = [failure |-> failure, n |-> nframes']]
    /\ backendLog' = Append(backendLog, [conn |-> c, call |-> [method |-> "cancel"]])
    /\ failures' = [failures EXCEPT ![c] = @ + 1]
    /\ served' = [served EXCEPT ![c] = "open"]
    /\ connOpen' = [connOpen EXCEPT ![c] = IF failure = "eof" THEN FALSE ELSE @]
    /\ UNCHANGED <<auxVars, mgrVars, envVars, stopVars, remapVars, procVars, ioVars, connVars, stdinVars, wireVars, killVars,
                   codecVars, listener, em, emitted, subscribers, cancelled,
                   subFrom, wire>>

NextDispatch ==
    \/ \E c \in CmdConns : Accept(c)
    \/ \E c \in CmdConns : \E payload \in RequestsOn(c), out \in BackendOutcomes :
          nframes < MaxRequests /\ HandleFrame(c, payload, out)
    \/ \E c \in CmdConns, failure \in ReadFailures :
          nframes < MaxRequests /\ ReadFail(c, failure)
    \/ \E c \in CmdConns : \E payload \in FollowUps :
          nframes < MaxRequests /\ SubscribedRead(c, payload)
    \/ \E c \in CmdConns, failure \in ReadFailures :
          nframes < MaxRequests /\ SubscribedReadFail(c, failure)

SpecDispatch == Init /\ [][NextDispatch]_vars

\* ------------------------------------------------------------ path remap
\* Byte strings are sequences of one-character strings; the marker
\* `"content":"/` of the skill prefix is one element.
Marker == "\"content\":\"/"
NameChars == {"h", "m", "r", "s", "t", "u", "x", "-", "_", "0", "A"}

\* bytes.Index(s, old): the first position at which old occurs, 0 for none
\* (Go's -1).
Index(s, old) ==
    LET hits == {i \in 1..(Len(s) - Len(old) + 1) :
                    SubSeq(s, i, i + Len(old) - 1) = old}
    IN  IF hits = {} THEN 0 ELSE CHOOSE i \in hits : \A j \in hits : i <= j

\* bytes.ReplaceAll(s, old, new): the occurrences of old are found from
\* left to right, each search starting after the previous occurrence; an
\* empty old matches before every byte and at the end.
RECURSIVE ReplaceAll(_, _, _)
ReplaceAll(s, old, new) ==
    IF old = <<>>
    THEN IF s = <<>> THEN new
         ELSE new \o <<Head(s)>> \o ReplaceAll(Tail(s), old, new)
    ELSE LET j == Index(s, old) IN
         IF j = 0 THEN s
         ELSE SubSeq(s, 1, j - 1) \o new
                  \o ReplaceAll(SubSeq(s, j + Len(old), Len(s)), old, new)

\* Variant of ApplyMounts that applies the list from its end.
RECURSIVE ApplyMountsReversed(_, _)
ApplyMountsReversed(data, remaps) ==
    IF remaps = <<>> THEN data
    ELSE ApplyMountsReversed(
             ReplaceAll(data, remaps[Len(remaps)].from, remaps[Len(remaps)].to),
             SubSeq(remaps, 1, Len(remaps) - 1))

\* for _, rm := range lp.mountRemap (process.go:376-378).
RECURSIVE ApplyMounts(_, _)
ApplyMounts(data, remaps) ==
    IF remaps = <<>> THEN data
    ELSE ApplyMounts(ReplaceAll(data, Head(remaps).from, Head(remaps).to),
                     Tail(remaps))

\* The number of name characters of d from position i on.
RECURSIVE NameRun(_, _)
NameRun(d, i) ==
    IF i > Len(d) \/ d[i] \notin NameChars THEN 0 ELSE 1 + NameRun(d, i + 1)

\* Variant of StripSkillPrefix that rewrites the first occurrence only.
StripSkillPrefixFirstOnly(d) ==
    LET hits == {i \in 1..Len(d) :
                    /\ d[i] = Marker
                    /\ NameRun(d, i + 1) >= 1
                    /\ Len(d) >= i + NameRun(d, i + 1) + 1
                    /\ d[i + NameRun(d, i + 1) + 1] = ":"}
    IN  IF hits = {} THEN d
        ELSE LET i == CHOOSE i \in hits : \A j \in hits : i <= j IN
             SubSeq(d, 1, i) \o SubSeq(d, i + NameRun(d, i + 1) + 2, Len(d))

\* re.ReplaceAll for `"content":"/[a-zA-Z0-9_-]+:` (process.go:385-393).
RECURSIVE StripSkillPrefix(_)
StripSkillPrefix(d) ==
    IF d = <<>> THEN <<>>
    ELSE LET n == NameRun(d, 2) IN
         IF d[1] = Marker /\ n >= 1 /\ Len(d) >= n + 2 /\ d[n + 2] = ":"
         THEN <<Marker>> \o StripSkillPrefix(SubSeq(d, n + 3, Len(d)))
         ELSE <<Head(d)>> \o StripSkillPrefix(Tail(d))

\* The virtual prefix and the real prefixes: one that ends with the virtual
\* prefix, one that has nothing in common with it.
VmPath == <<"/", "s">>
RealPaths == {<<"/", "h", "/", "s">>, <<"/", "r">>}

\* Texts around the skill prefix: a prefix of several characters before a
\* skill name, an empty prefix, a prefix with a character outside the class,
\* two prefixes in a row, two invocations, a colon without the marker, and
\* the marker without a colon.
SkillTexts ==
    {<<Marker, "x", "-", "A", ":", "m", " ", "t">>,
     <<Marker, ":", "x">>,
     <<Marker, "x", "/", "m", ":">>,
     <<Marker, "x", ":", "m", ":", "t">>,
     <<Marker, "x", ":", Marker, "m", "_", "0", ":">>,
     <<"x", ":", "m">>,
     <<Marker, "x">>}

\* The texts of stdin data and of output lines: the virtual prefix once,
\* twice, before a mount directory and inside other text, a skill
\* invocation, a mount target, and the real prefixes alone and before a
\* mount directory.
Texts ==
    {VmPath, VmPath \o VmPath, VmPath \o <<"/", "m">>,
     <<"x">> \o VmPath \o <<"x">>, <<"/", "t">>,
     <<Marker, "x", ":">> \o VmPath}
        \cup SkillTexts
        \cup RealPaths \cup {r \o <<"/", "m">> : r \in RealPaths}

\* The mount remap lists of a spawn with real prefix r.
MountLists(r) ==
    {<<>>,
     <<[from |-> r \o <<"/", "m">>, to |-> <<"/", "t">>]>>,
     <<[from |-> r \o <<"/", "m">>, to |-> <<"/", "t">>],
       [from |-> <<"/", "t">>, to |-> <<"/", "u">>]>>}

NoProcess == [id |-> ""]

\* Variant of ForwardEnabled that follows the reverse mapping.
ForwardEnabledIfReverse(p) == p.reverseMap

\* writeStdin's test `lp.vmPrefix != nil` (process.go:369).
ForwardEnabled(p) == p.vmPrefix /= <<>>

\* spawn builds the record: the prefixes are kept when both are non-empty,
\* and output is mapped back only if os.Stat(vmPrefix) succeeds now
\* (process.go:154-172).
RemapSpawn(v, r, mounts) ==
    /\ lproc = NoProcess
    /\ lproc' = [id |-> "cli",
              vmPrefix |-> IF v /= <<>> /\ r /= <<>> THEN v ELSE <<>>,
              realPrefix |-> IF v /= <<>> /\ r /= <<>> THEN r ELSE <<>>,
              reverseMap |-> v /= <<>> /\ r /= <<>> /\ vmExists,
              mountRemap |-> mounts,
              done |-> FALSE]
    /\ spawnedWith' = [v |-> v, r |-> r, existed |-> vmExists]
    /\ UNCHANGED <<auxVars, mgrVars, envVars, stopVars, procVars, ioVars, busVars, connVars, stdinVars, wireVars,
                   killVars, codecVars, dispVars, vmExists, stdinLog, outLog>>

\* The directory of the virtual prefix is created or removed.
FsChange ==
    /\ vmExists' = ~vmExists
    /\ UNCHANGED <<auxVars, mgrVars, envVars, stopVars, procVars, ioVars, busVars, connVars, stdinVars, wireVars,
                   killVars, codecVars, dispVars, lproc, spawnedWith, stdinLog,
                   outLog>>

\* The child is reaped and its latch closed (process.go:234).
RemapReaped ==
    /\ lproc /= NoProcess /\ ~lproc.done
    /\ lproc' = [lproc EXCEPT !.done = TRUE]
    /\ UNCHANGED <<auxVars, mgrVars, envVars, stopVars, procVars, ioVars, busVars, connVars, stdinVars, wireVars,
                   killVars, codecVars, dispVars, vmExists, spawnedWith,
                   stdinLog, outLog>>

\* writeStdin(id, data) with the child reading its stdin: the lookup, the
\* forward remap, the mount remaps, the skill prefix, the latch, the write
\* (process.go:359-420).
RemapWriteStdin(id, data) ==
    LET forward == IF ForwardEnabled(lproc)
                   THEN ReplaceAll(data, lproc.vmPrefix, lproc.realPrefix) ELSE data
        bytes == StripSkillPrefix(ApplyMounts(forward, lproc.mountRemap))
    IN
    /\ stdinLog' = Append(stdinLog,
          IF lproc.id /= id THEN [data |-> data, err |-> NotFound(id)]
          ELSE IF lproc.done THEN [data |-> data, err |-> HasExitedError(id)]
          ELSE [data |-> data, err |-> "", written |-> bytes])
    /\ UNCHANGED <<auxVars, mgrVars, envVars, stopVars, procVars, ioVars, busVars, connVars, stdinVars, wireVars,
                   killVars, codecVars, dispVars, lproc, vmExists, spawnedWith,
                   outLog>>

\* streamOutput, one line of either stream: the newline, the reverse remap,
\* the event (process.go:251-274).
RemapStreamLine(text) ==
    LET line == text \o <<"\n">> IN
    /\ lproc /= NoProcess /\ ~lproc.done
    /\ outLog' = Append(outLog,
          [text |-> text,
           event |-> NewStdoutEvent(lproc.id,
                        IF lproc.reverseMap
                        THEN ReplaceAll(line, lproc.realPrefix, lproc.vmPrefix)
                        ELSE line, 1, "stdout")])
    /\ UNCHANGED <<auxVars, mgrVars, envVars, stopVars, procVars, ioVars, busVars, connVars, stdinVars, wireVars,
                   killVars, codecVars, dispVars, lproc, vmExists, spawnedWith,
                   stdinLog>>

NextRemap ==
    \/ \E v \in {<<>>, VmPath}, r \in {<<>>} \cup RealPaths :
          \E mounts \in MountLists(r) : RemapSpawn(v, r, mounts)
    \/ FsChange
    \/ RemapReaped
    \/ \E id \in {"cli", "ghost"}, data \in Texts :
          Len(stdinLog) + Len(outLog) < MaxTexts /\ RemapWriteStdin(id, data)
    \/ \E text \in Texts :
          Len(stdinLog) + Len(outLog) < MaxTexts /\ RemapStreamLine(text)

SpecRemap == Init /\ [][NextRemap]_vars

\* ------------------------------------------------------------ the event bus
\* vm.Manager's subscriber vector with the callbacks handleSubscribeEvents
\* registers in it. A and C subscribe, B asks for startVM, which emits, and
\* for spawn. Manager.mu is held over the whole of SubscribeEvents, of
\* cancel and of StartVM, so each of them is one step. The client of A
\* may hang up or send a frame of length zero at any moment; the client of
\* C stays.
BusSubs == {"A", "C"}
Leavers == {"A"}
Slots == 1..MaxSubs
Events == 1..MaxEmits
Free == <<>>
VmEvent(n) == [type |-> "vmStarted", n |-> n]
AckWriter == <<"reply", 0, 0>>
EventWriter(n, i) == <<"event", n, i>>

\* handleSubscribeEvents up to the return of backend.SubscribeEvents: the
\* callback is appended to m.subscribers (part_004:310-326), with a fresh
\* cancelled flag and a fresh writeMu.
BusSubscribe(c) ==
    /\ cpc[c] = "read" /\ connOpen[c]
    /\ Len(subscribers) < MaxSubs
    /\ subscribers' = SubscribeEvents(c)
    /\ slotConn' = Append(slotConn, [conn |-> c, from |-> Len(emitted)])
    /\ cpc' = [cpc EXCEPT ![c] = "sub_ack"]
    /\ UNCHANGED <<notBus, emitted, wire, connOpen, cflag, writeMu, cbpc,
                   writers, cancelLog, wfailed>>

\* WriteResponse(conn, {subscribed: true}) enters conn.Write; writeMu is
\* not taken (handlers.go:389).
AckBegin(c) ==
    /\ cpc[c] = "sub_ack"
    /\ writers' = [writers EXCEPT ![c] = @ \cup {AckWriter}]
    /\ cpc' = [cpc EXCEPT ![c] = "sub_ackw"]
    /\ UNCHANGED <<notBus, emitted, subscribers, wire, connOpen, slotConn,
                   cflag, writeMu, cbpc, cancelLog, wfailed>>

\* conn.Write of the initial reply returns; the handler enters its read
\* loop.
AckEnd(c) ==
    /\ cpc[c] = "sub_ackw"
    /\ writers' = [writers EXCEPT ![c] = @ \ {AckWriter}]
    /\ WriteFrame(c, SuccessReply([subscribed |-> TRUE]))
    /\ cpc' = [cpc EXCEPT ![c] = "sub_loop"]
    /\ UNCHANGED <<notBus, emitted, subscribers, connOpen, slotConn, cflag,
                   writeMu, cbpc, cancelLog, wfailed>>

\* The client closes its end of the connection.
BusClientClose(c) ==
    /\ connOpen[c]
    /\ cpc[c] /= "closed"
    /\ connOpen' = [connOpen EXCEPT ![c] = FALSE]
    /\ UNCHANGED <<notBus, emitted, subscribers, wire, cpc, mgrVars>>

\* The slot of connection c's subscription.
SlotOf(c) == CHOOSE i \in 1..Len(slotConn) :
                 /\ slotConn[i].conn = c
                 /\ \A j \in (i + 1)..Len(slotConn) : slotConn[j].conn /= c

\* Variant of CancelSlot that removes the slot from the vector.
CancelSlotCompacts(idx) ==
    [j \in 1..(Len(subscribers) - 1) |->
        IF j < idx THEN subscribers[j] ELSE subscribers[j + 1]]

\* Variant of CancelSlot that leaves the callback in its slot.
CancelSlotKeeps(idx) == subscribers

\* The cancel closure of the subscription at idx: the slot is set to nil
\* (part_004:317-323).
CancelSlot(idx) ==
    IF idx <= Len(subscribers) THEN [subscribers EXCEPT ![idx] = "nil"]
    ELSE subscribers

\* ReadMessage fails in the read loop, at the end of the stream or on a
\* frame of length zero or above the maximum: cancel() and return to
\* handleConnection's loop (handlers.go:393-398).
LoopReadFail(c, failure) ==
    /\ cpc[c] = "sub_loop"
    /\ (failure = "eof") = ~connOpen[c]
    /\ subscribers' = CancelSlot(SlotOf(c))
    /\ cancelLog' = Append(cancelLog, [slot |-> SlotOf(c), at |-> Len(emitted),
                                       failure |-> failure])
    /\ cpc' = [cpc EXCEPT ![c] = "read"]
    /\ UNCHANGED <<notBus, emitted, wire, connOpen, slotConn, cflag, writeMu,
                   cbpc, writers, wfailed>>

\* ReadMessage fails in handleConnection's loop: the worker returns and its
\* deferred conn.Close() runs (server.go:107-130).
WorkerReadFail(c) ==
    /\ cpc[c] = "read" /\ ~connOpen[c]
    /\ cpc' = [cpc EXCEPT ![c] = "closed"]
    /\ UNCHANGED <<notBus, emitted, subscribers, wire, connOpen, mgrVars>>

\* Variant of emitEvent that calls the callbacks of open connections only.
EmitEventToOpen(n) ==
    [i \in Slots |->
        IF i <= Len(subscribers) /\ subscribers[i] /= "nil"
               /\ connOpen[subscribers[i]]
        THEN "check" ELSE "none"]

\* emitEvent: `go cb(event)` for every slot that is not nil
\* (part_004:350-356).
EmitEvent(n) ==
    [i \in Slots |->
        IF i <= Len(subscribers) /\ subscribers[i] /= "nil"
        THEN "check" ELSE "none"]

\* A request on connection b. startVM: the backend emits its event and
\* returns, the handler replies (handlers.go:158-169, part_004:76-111).
\* spawn: the backend asks the guest and the handler replies with the id or
\* with the failure (handlers.go:210-233, part_004:154-181).
BusRequest(b, method, ok) ==
    /\ cpc[b] = "read" /\ connOpen[b]
    /\ Len(wire[b]) < MaxEmits
    /\ IF method = "startVM"
       THEN /\ ok
            /\ emitted' = Append(emitted, VmEvent(Len(emitted) + 1))
            /\ cbpc' = [cbpc EXCEPT ![Len(emitted) + 1] = EmitEvent(Len(emitted) + 1)]
            /\ WriteFrame(b, SuccessReply(Nil))
       ELSE /\ UNCHANGED <<emitted, cbpc>>
            /\ WriteFrame(b, IF ok THEN SuccessReply([id |-> "proc-1"])
                             ELSE ErrorReply("sdk-daemon not connected"))
    /\ UNCHANGED <<notBus, subscribers, connOpen, cpc, slotConn, cflag,
                   writeMu, writers, cancelLog, wfailed>>

\* Variant of CbCheck that does not look at the flag.
CbCheckIgnoresFlag(n, i) ==
    /\ cbpc[n][i] = "check"
    /\ cbpc' = [cbpc EXCEPT ![n][i] = "lock"]
    /\ UNCHANGED <<notBus, emitted, subscribers, wire, connOpen, cpc,
                   slotConn, cflag, writeMu, writers, cancelLog, wfailed>>

\* The callback of slot i, called with event n: the test of the cancelled
\* flag, and the return when it is set (handlers.go:356-358).
CbCheck(n, i) ==
    /\ cbpc[n][i] = "check"
    /\ cbpc' = [cbpc EXCEPT ![n][i] = IF cflag[i] THEN "skipped" ELSE "lock"]
    /\ UNCHANGED <<notBus, emitted, subscribers, wire, connOpen, cpc,
                   slotConn, cflag, writeMu, writers, cancelLog, wfailed>>

\* writeMu.Lock() and the entry into WriteMessage (handlers.go:374-375).
CbLock(n, i) ==
    /\ cbpc[n][i] = "lock"
    /\ writeMu[i] = Free
    /\ writeMu' = [writeMu EXCEPT ![i] = <<n, i>>]
    /\ writers' = [writers EXCEPT ![slotConn[i].conn] = @ \cup {EventWriter(n, i)}]
    /\ cbpc' = [cbpc EXCEPT ![n][i] = "write"]
    /\ UNCHANGED <<notBus, emitted, subscribers, wire, connOpen, cpc,
                   slotConn, cflag, cancelLog, wfailed>>

\* Variant of WriteFails in which a write on a connection the client has
\* closed succeeds.
WriteFailsNever(c) == FALSE

\* conn.Write fails when the client has closed the connection or the
\* worker has.
WriteFails(c) == ~connOpen[c] \/ cpc[c] = "closed"

\* WriteMessage returns and writeMu is released (handlers.go:375-376).
CbWriteEnd(n, i) ==
    LET c == slotConn[i].conn IN
    /\ cbpc[n][i] = "write"
    /\ writers' = [writers EXCEPT ![c] = @ \ {EventWriter(n, i)}]
    /\ writeMu' = [writeMu EXCEPT ![i] = Free]
    /\ wire' = [wire EXCEPT ![c] = IF WriteFails(c) THEN @
                                   ELSE Append(@, EventFrame(emitted[n]))]
    /\ wfailed' = [wfailed EXCEPT ![i] = IF WriteFails(c) /\ @ = 0
                                          THEN Len(emitted) + 1 ELSE @]
    /\ cbpc' = [cbpc EXCEPT ![n][i] = IF WriteFails(c) THEN "store" ELSE "done"]
    /\ UNCHANGED <<notBus, emitted, subscribers, connOpen, cpc, slotConn,
                   cflag, cancelLog>>

\* Variant of StoreCancelled with one flag for all the subscriptions.
StoreCancelledShared(i) == [j \in Slots |-> TRUE]

\* `cancelled` is a variable of the handleSubscribeEvents call that made
\* the callback (handlers.go:350-353).
StoreCancelled(i) == [cflag EXCEPT ![i] = TRUE]

\* atomic.StoreInt32(&cancelled, 1) after a failed write (handlers.go:377-378).
CbStore(n, i) ==
    /\ cbpc[n][i] = "store"
    /\ cflag' = StoreCancelled(i)
    /\ cbpc' = [cbpc EXCEPT ![n][i] = "done"]
    /\ UNCHANGED <<notBus, emitted, subscribers, wire, connOpen, cpc,
                   slotConn, writeMu, writers, cancelLog, wfailed>>

NextBus ==
    \/ \E c \in BusSubs : BusSubscribe(c)
    \/ \E c \in BusSubs : AckBegin(c)
    \/ \E c \in BusSubs : AckEnd(c)
    \/ \E c \in Leavers : BusClientClose(c)
    \/ \E c \in Leavers, failure \in {"eof", "zero-length"} :
          LoopReadFail(c, failure)
    \/ \E c \in Leavers : WorkerReadFail(c)
    \/ \E method \in {"startVM", "spawn"}, ok \in BOOLEAN :
          BusRequest("B", method, ok)
    \/ \E n \in Events, i \in Slots : CbCheck(n, i)
    \/ \E n \in Events, i \in Slots : CbLock(n, i)
    \/ \E n \in Events, i \in Slots : CbWriteEnd(n, i)
    \/ \E n \in Events, i \in Slots : CbStore(n, i)

SpecBus == Init /\ [][NextBus]_vars

\* ------------------------------------------------------------ server stop
\* pipe/server.go: the accept loop, the connection workers and Stop. The
\* listener was made by net.Listen("unix", socketPath) (server.go:59): it
\* created the socket file, and closing it removes the file again
\* (net.UnixListener, unlink on close).
StopConns == {"A", "B"}
Workers == {c \in StopConns : wpc[c] \notin {"none", "exited"}}

\* The client of c has connected: the connection waits in the backlog, is
\* in the accept loop's hands, or has its worker.
Connected(c) == c \in backlog \/ apc = <<"go", c>> \/ wpc[c] /= "none"

\* A client connects to the socket path; the connection waits to be
\* accepted.
Dial(c) ==
    /\ ~Connected(c)
    /\ sockFile /\ listener = "open"
    /\ backlog' = backlog \cup {c}
    /\ UNCHANGED <<notStop, sentFrames, listener, quit, sockFile, apc, stoppc, wg, wpc,
                   pending, hung, handled>>

\* The client sends a frame.
SendFrame(c) ==
    /\ Connected(c)
    /\ ~hung[c]
    /\ sentFrames[c] < MaxFrames
    /\ sentFrames' = [sentFrames EXCEPT ![c] = @ + 1]
    /\ pending' = [pending EXCEPT ![c] = @ + 1]
    /\ UNCHANGED <<notStop, listener, quit, sockFile, apc, stoppc, wg, wpc,
                   backlog, hung, handled>>

\* The client closes its end.
HangUp(c) ==
    /\ Connected(c)
    /\ ~hung[c]
    /\ hung' = [hung EXCEPT ![c] = TRUE]
    /\ UNCHANGED <<notStop, sentFrames, listener, quit, sockFile, apc, stoppc, wg, wpc,
                   backlog, pending, handled>>

\* acceptLoop: s.listener.Accept() returns a connection (server.go:91).
LoopAccept(c) ==
    /\ apc = <<"accept">>
    /\ listener = "open"
    /\ c \in backlog
    /\ backlog' = backlog \ {c}
    /\ apc' = <<"go", c>>
    /\ UNCHANGED <<notStop, sentFrames, listener, quit, sockFile, stoppc, wg, wpc,
                   pending, hung, handled>>

\* acceptLoop: s.wg.Add(1); go s.handleConnection(conn) (server.go:102-103).
LoopGo ==
    /\ apc[1] = "go"
    /\ wg' = wg + 1
    /\ wpc' = [wpc EXCEPT ![apc[2]] = "select"]
    /\ apc' = <<"accept">>
    /\ UNCHANGED <<notStop, sentFrames, listener, quit, sockFile, stoppc, backlog,
                   pending, hung, handled>>

\* acceptLoop: Accept returns an error, as it does once the listener is
\* closed, and before that when the system call fails (server.go:91-92).
LoopAcceptFails(transient) ==
    /\ apc = <<"accept">>
    /\ transient \/ listener = "closed"
    /\ apc' = <<"err">>
    /\ UNCHANGED <<notStop, sentFrames, listener, quit, sockFile, stoppc, wg, wpc,
                   backlog, pending, hung, handled>>

\* acceptLoop: the select after a failed Accept; return, with the deferred
\* s.wg.Done(), when quit is closed, else log and continue
\* (server.go:88, 93-99).
LoopOnError ==
    /\ apc = <<"err">>
    /\ IF quit THEN apc' = <<"exited">> /\ wg' = wg - 1
       ELSE apc' = <<"accept">> /\ wg' = wg
    /\ UNCHANGED <<notStop, sentFrames, listener, quit, sockFile, stoppc, wpc, backlog,
                   pending, hung, handled>>

\* The worker returns: the deferred conn.Close() and s.wg.Done()
\* (server.go:108-109).
WorkerReturns(c) ==
    /\ wpc' = [wpc EXCEPT ![c] = "exited"]
    /\ wg' = wg - 1

\* handleConnection: the select on s.quit at the top of the loop
\* (server.go:118-122).
ConnSelect(c) ==
    /\ wpc[c] = "select"
    /\ IF quit THEN WorkerReturns(c)
       ELSE wpc' = [wpc EXCEPT ![c] = "read"] /\ wg' = wg
    /\ UNCHANGED <<notStop, sentFrames, listener, quit, sockFile, apc, stoppc, backlog,
                   pending, hung, handled>>

\* handleConnection: ReadMessage returns a frame, or fails at the end of
\* the stream and the worker returns (server.go:124-130). It blocks while
\* the client neither sends nor closes.
ConnRead(c) ==
    /\ wpc[c] = "read"
    /\ IF pending[c] > 0
       THEN /\ pending' = [pending EXCEPT ![c] = @ - 1]
            /\ wpc' = [wpc EXCEPT ![c] = "handle"]
            /\ wg' = wg
       ELSE /\ hung[c]
            /\ WorkerReturns(c)
            /\ pending' = pending
    /\ UNCHANGED <<notStop, sentFrames, listener, quit, sockFile, apc, stoppc, backlog,
                   hung, handled>>

\* handleConnection: handler.Handle(conn, payload) dispatches the request
\* and returns (server.go:132), or, for subscribeEvents, stays in the read
\* loop of handleSubscribeEvents (handlers.go:393-398).
ConnHandle(c, sub) ==
    /\ wpc[c] = "handle"
    /\ handled' = [handled EXCEPT ![c] = @ + 1]
    /\ wpc' = [wpc EXCEPT ![c] = IF sub THEN "sub_loop" ELSE "select"]
    /\ UNCHANGED <<notStop, sentFrames, listener, quit, sockFile, apc, stoppc, wg,
                   backlog, pending, hung>>

\* The read loop of handleSubscribeEvents: a frame is read and dropped, or
\* ReadMessage fails at the end of the stream and Handle returns
\* (handlers.go:393-398). It blocks while the client neither sends nor
\* closes.
ConnSubRead(c) ==
    /\ wpc[c] = "sub_loop"
    /\ IF pending[c] > 0
       THEN /\ pending' = [pending EXCEPT ![c] = @ - 1]
            /\ wpc' = wpc
       ELSE /\ hung[c]
            /\ wpc' = [wpc EXCEPT ![c] = "select"]
            /\ pending' = pending
    /\ UNCHANGED <<notStop, sentFrames, listener, quit, sockFile, apc, stoppc, wg,
                   backlog, hung, handled>>

\* Stop: close(s.quit) (server.go:79).
StopCloseQuit ==
    /\ stoppc = "running"
    /\ quit' = TRUE
    /\ stoppc' = "close"
    /\ UNCHANGED <<notStop, sentFrames, listener, sockFile, apc, wg, wpc, backlog,
                   pending, hung, handled>>

\* Variant of ListenerClose that leaves the socket file in place.
ListenerCloseKeepsFile == sockFile

\* s.listener.Close() on the listener net.Listen made: the socket file is
\* removed with it.
ListenerClose == FALSE

\* Stop: s.listener.Close() (server.go:80-82).
StopCloseListener ==
    /\ stoppc = "close"
    /\ listener' = "closed"
    /\ sockFile' = ListenerClose
    /\ stoppc' = "wait"
    /\ UNCHANGED <<notStop, sentFrames, quit, apc, wg, wpc, backlog, pending, hung,
                   handled>>

\* Stop: s.wg.Wait() returns when the counter is zero (server.go:83).
StopWait ==
    /\ stoppc = "wait"
    /\ wg = 0
    /\ stoppc' = "remove"
    /\ UNCHANGED <<notStop, sentFrames, listener, quit, sockFile, apc, wg, wpc, backlog,
                   pending, hung, handled>>

\* Stop: os.Remove(s.socketPath) (server.go:84).
StopRemove ==
    /\ stoppc = "remove"
    /\ sockFile' = FALSE
    /\ stoppc' = "stopped"
    /\ UNCHANGED <<notStop, sentFrames, listener, quit, apc, wg, wpc, backlog, pending,
                   hung, handled>>

NextStop ==
    \/ \E c \in StopConns : Dial(c)
    \/ \E c \in StopConns : SendFrame(c)
    \/ \E c \in StopConns : HangUp(c)
    \/ \E c \in StopConns : LoopAccept(c)
    \/ LoopGo
    \/ \E transient \in BOOLEAN : LoopAcceptFails(transient)
    \/ LoopOnError
    \/ \E c \in StopConns : ConnSelect(c)
    \/ \E c \in StopConns : ConnRead(c)
    \/ \E c \in StopConns, sub \in BOOLEAN : ConnHandle(c, sub)
    \/ \E c \in StopConns : ConnSubRead(c)
    \/ StopCloseQuit
    \/ StopCloseListener
    \/ StopWait
    \/ StopRemove

SpecStop == Init /\ [][NextStop]_vars

\* The goroutines of the server take their steps; the clients and the
\* caller of Stop are not obliged to do anything.
SpecStopFair ==
    /\ SpecStop
    /\ WF_vars(\E c \in StopConns : LoopAccept(c))
    /\ WF_vars(LoopGo)
    /\ WF_vars(LoopAcceptFails(FALSE))
    /\ WF_vars(LoopOnError)
    /\ \A c \in StopConns :
          /\ WF_vars(ConnSelect(c))
          /\ WF_vars(ConnRead(c))
          /\ WF_vars(\E sub \in BOOLEAN : ConnHandle(c, sub))
          /\ WF_vars(ConnSubRead(c))
    /\ WF_vars(StopCloseListener)
    /\ WF_vars(StopWait)
    /\ WF_vars(StopRemove)

\* ------------------------------------------------------------ daemon shutdown
\* main after SIGINT or SIGTERM (part_002:84-89): backend.Shutdown(), which
\* signals the children through killAll, then the deferred server.Stop().
\* Connections B and C are served meanwhile and may spawn.

\* main receives the signal and calls backend.Shutdown(); killAll copies
\* the ids of the registry under pt.mu (part_002:86-88,
\* process.go:442-447).
MainSignal ==
    /\ mainpc = "serving"
    /\ mainpc' = "killall"
    /\ ids' = DOMAIN processes
    /\ idsLeft' = DOMAIN processes
    /\ UNCHANGED <<notShut, cpc, quit, sent, got, kaProc, kaPg>>

\* killAll calls pt.kill(id, "") for the next id: the lookup and
\* syscall.Getpgid (process.go:449-451, 284-299).
KillAllGetpgid(id) ==
    /\ mainpc = "killall" /\ kaProc = 0
    /\ id \in idsLeft
    /\ idsLeft' = idsLeft \ {id}
    /\ kaProc' = Lookup(id)
    /\ \E pg \in Getpgid(Lookup(id)) : kaPg' = pg
    /\ UNCHANGED <<notShut, cpc, quit, sent, got, mainpc, ids>>

\* pt.kill(id, "") sends SIGTERM to the group, or to the process when
\* Getpgid failed (process.go:296-304).
KillAllSend ==
    LET k == kaProc
        to == KillTarget(kaPg)
        delivered == IF to = "proc" THEN ~Reaped(k) ELSE TRUE
    IN  /\ mainpc = "killall" /\ kaProc /= 0
        /\ sent' = Append(sent, [n |-> 0, proc |-> k, to |-> to,
                                 sig |-> mapSignal(<<>>),
                                 delivered |-> delivered])
        /\ got' = [got EXCEPT ![k] =
                    IF to \in {"own", "proc"} /\ delivered /\ child[k] = "running"
                    THEN @ \cup {mapSignal(<<>>)} ELSE @]
        /\ kaProc' = 0
        /\ kaPg' = ""
        /\ UNCHANGED <<notShut, cpc, quit, mainpc, ids, idsLeft>>

\* killAll and Shutdown return; main returns and server.Stop() closes quit
\* (part_002:79, server.go:79).
MainStop ==
    /\ mainpc = "killall" /\ kaProc = 0 /\ idsLeft = {}
    /\ mainpc' = "stopping"
    /\ quit' = TRUE
    /\ UNCHANGED <<notShut, cpc, sent, got, ids, idsLeft, kaProc, kaPg>>

\* A worker that is at its select, not inside ReadMessage or a handler,
\* finds quit closed and returns (server.go:118-122).
ObserveQuit(c) ==
    /\ quit
    /\ cpc[c] = "read"
    /\ cpc' = [cpc EXCEPT ![c] = "closed"]
    /\ UNCHANGED <<notShut, quit, sent, got, shutVars>>

\* Stop's wg.Wait() returns when every worker has returned; Stop and main
\* return and the daemon exits (server.go:83-85).
MainExit ==
    /\ mainpc = "stopping"
    /\ \A c \in CmdConns : cpc[c] = "closed"
    /\ mainpc' = "exited"
    /\ UNCHANGED <<notShut, cpc, quit, sent, got, ids, idsLeft, kaProc, kaPg>>

NextShutdown ==
    \/ \E c \in CmdConns, id \in {"", "cli"} :
            calls < MaxCalls /\ SpawnAssignId(c, id)
    \/ \E c \in CmdConns : SpawnStartOk(c)
    \/ \E c \in CmdConns : SpawnInsert(c)
    \/ \E k \in Procs, code \in {0} : ChildExit(k, code)
    \/ \E k \in Procs : \E sig \in got[k] : ChildSignalled(k, sig)
    \/ \E k \in Procs, s \in Streams : StreamEOF(k, s)
    \/ \E k \in Procs : ReaperExit(k)
    \/ \E k \in Procs : ReaperClose(k)
    \/ MainSignal
    \/ \E id \in {"cli", "proc-1", "proc-2"} : KillAllGetpgid(id)
    \/ KillAllSend
    \/ MainStop
    \/ \E c \in CmdConns : ObserveQuit(c)
    \/ MainExit

SpecShutdown == Init /\ [][NextShutdown]_vars

\* ------------------------------------------------------------ signal names
\* The `signal` strings a kill request may carry: every name of mapSignal's
\* table in several spellings, the empty string, and names the table does
\* not have.
SignalNames ==
    {<<>>, <<"K", "I", "L", "L">>, <<"k", "i", "l", "l">>,
     <<"K", "i", "l", "l">>, <<"S", "I", "G", "K", "I", "L", "L">>,
     <<"s", "i", "g", "k", "i", "l", "l">>,
     <<"S", "i", "g", "K", "i", "l", "l">>, <<"I", "N", "T">>,
     <<"i", "n", "t">>, <<"s", "I", "g", "I", "n", "T">>,
     <<"S", "I", "G", "I", "N", "T">>, <<"Q", "U", "I", "T">>,
     <<"q", "u", "i", "t">>, <<"s", "i", "g", "q", "u", "i", "t">>,
     <<"H", "U", "P">>, <<"h", "u", "p">>, <<"S", "I", "G", "H", "U", "P">>,
     <<"U", "S", "R", "1">>, <<"u", "s", "r", "1">>,
     <<"S", "I", "G", "U", "S", "R", "1">>,
     <<"s", "i", "g", "u", "s", "r", "1">>, <<"U", "S", "R", "2">>,
     <<"u", "s", "r", "2">>, <<"S", "I", "G", "u", "s", "r", "2">>,
     <<"T", "E", "R", "M">>, <<"t", "e", "r", "m">>,
     <<"S", "I", "G", "T", "E", "R", "M">>,
     <<"s", "i", "g", "t", "e", "r", "m">>, <<"S", "I", "G">>,
     <<"s", "i", "g">>, <<"b", "o", "g", "u", "s">>, <<"S", "T", "O", "P">>,
     <<"S", "I", "G", "S", "T", "O", "P">>,
     <<"S", "I", "G", "S", "I", "G", "K", "I", "L", "L">>,
     <<"K", "I", "L", "L", "X">>, <<"X", "K", "I", "L", "L">>,
     <<" ", "K", "I", "L", "L">>, <<"9">>, <<"U", "S", "R", "3">>,
     <<"S", "I", "G", "K">>}

\* mapSignal is called with name (process.go:296).
Translate(name) ==
    /\ Len(sigLog) < MaxNames
    /\ sigLog' = Append(sigLog, [name |-> name, sig |-> mapSignal(name)])
    /\ UNCHANGED <<notAux, shutVars, afterExit>>

NextSignal == \E name \in SignalNames : Translate(name)

SpecSignal == Init /\ [][NextSignal]_vars

\* ------------------------------------------------------------ the child's environment
\* An environment entry `NAME=value` is a sequence of tokens: the name, in
\* one or two tokens, then "=", then the value.
Name(k) == IF k = "CLAUDECODE_X" THEN <<"CLAUDECODE", "_X">> ELSE <<k>>
Entry(k, v) == Name(k) \o <<"=", v>>

\* strings.HasPrefix.
HasPrefix(s, prefix) ==
    Len(s) >= Len(prefix) /\ SubSeq(s, 1, Len(prefix)) = prefix

\* The names the service may have been started with and the names a caller
\* may pass; a caller's value is "req", an inherited one "sup".
InheritedNames == {"PATH", "HOME", "CLAUDECODE", "CLAUDE_CODE_ENTRYPOINT", "CLAUDECODE_X"}
CallerNames == {"PATH", "CLAUDECODE", "CLAUDE_CODE_ENTRYPOINT", "CLAUDECODE_X", "FOO"}

\* The sequences without repetition over the set S.
RECURSIVE Orders(_)
Orders(S) ==
    IF S = {} THEN {<<>>}
    ELSE UNION {{<<x>> \o q : q \in Orders(S \ {x})} : x \in S}

\* Variant of NestedPrefixes without the "=" that ends the name.
NestedPrefixesBare == {<<"CLAUDECODE">>, <<"CLAUDE_CODE_ENTRYPOINT">>}

\* The prefixes spawn looks for (process.go:121).
NestedPrefixes == {<<"CLAUDECODE", "=">>, <<"CLAUDE_CODE_ENTRYPOINT", "=">>}

\* The loop from the last entry to the first that removes the entries with
\* one of the prefixes (process.go:120-127); i is the index it is at.
RECURSIVE StripNested(_, _)
StripNested(list, i) ==
    IF i = 0 THEN list
    ELSE IF \E p \in NestedPrefixes : HasPrefix(list[i], p)
    THEN StripNested(SubSeq(list, 1, i - 1) \o SubSeq(list, i + 1, Len(list)), i - 1)
    ELSE StripNested(list, i - 1)

\* c.Env as spawn leaves it: with a non-empty env map, the supervisor's
\* environment followed by the map's entries in the order `range` yields
\* them; with an empty one, the supervisor's environment; then the strip
\* (process.go:107-127).
CmdEnv(environ, keys) ==
    LET overlaid == environ \o [j \in 1..Len(keys) |-> Entry(keys[j], "req")]
    IN  StripNested(overlaid, Len(overlaid))

\* The name of an entry: the tokens before its first "=".
EntryName(e) ==
    SubSeq(e, 1, (CHOOSE j \in 1..Len(e) :
                     e[j] = "=" /\ \A m \in 1..(j - 1) : e[m] /= "=") - 1)

\* What the child sees: os/exec keeps the last entry of each name when the
\* command starts. The value of name k, "" when k is not set.
Getenv(list, k) ==
    LET at == {j \in 1..Len(list) : EntryName(list[j]) = Name(k)} IN
    IF at = {} THEN ""
    ELSE list[CHOOSE j \in at : \A m \in at : m <= j][Len(list[CHOOSE j \in at : \A m \in at : m <= j])]

\* The service is started with an environment.
ServiceStart(names) ==
    /\ osEnviron = <<"unset">>
    /\ \E order \in Orders(names) :
          osEnviron' = [j \in 1..Len(order) |-> Entry(order[j], "sup")]
    /\ UNCHANGED <<notEnv, envReq, cmdEnv>>

\* spawn with the env map whose keys `range` yields in the order keys.
EnvSpawn(keys) ==
    /\ osEnviron /= <<"unset">>
    /\ cmdEnv = <<"nil">>
    /\ envReq' = keys
    /\ cmdEnv' = CmdEnv(osEnviron, keys)
    /\ UNCHANGED <<notEnv, osEnviron>>

NextEnv ==
    \/ \E names \in SUBSET InheritedNames : ServiceStart(names)
    \/ \E keys \in UNION {Orders(S) : S \in SUBSET CallerNames} : EnvSpawn(keys)

SpecEnv == Init /\ [][NextEnv]_vars

\* ------------------------------------------------------------ two children
\* Two spawn calls that may be given the same id, the output of the two
\* children, their readers and their reapers; nobody is subscribed.
NextLatch ==
    \/ \E c \in CmdConns, id \in {"", "cli"} :
            calls < MaxCalls /\ SpawnAssignId(c, id)
    \/ \E c \in CmdConns : SpawnStartOk(c)
    \/ \E c \in CmdConns : SpawnInsert(c)
    \/ \E k \in Procs, kind \in LineKinds : ChildWrite(k, "stdout", kind)
    \/ \E k \in Procs, code \in {0} : ChildExit(k, code)
    \/ \E k \in Procs, s \in Streams : StreamLine(k, s)
    \/ \E k \in Procs, s \in Streams : StreamTooLong(k, s)
    \/ \E k \in Procs, s \in Streams : StreamEOF(k, s)
    \/ \E k \in Procs : ReaperExit(k)
    \/ \E k \in Procs : ReaperClose(k)

SpecLatch == Init /\ [][NextLatch]_vars

\* ------------------------------------------------------------ two stdins
\* Two children that stay alive and the writeStdin calls of two
\* connections, to the same child or to one each.
NextWriters ==
    \/ \E c \in CmdConns, id \in {"", "cli"} :
            calls < MaxCalls /\ SpawnAssignId(c, id)
    \/ \E c \in CmdConns : SpawnStartOk(c)
    \/ \E c \in CmdConns : SpawnInsert(c)
    \/ \E k \in Procs : ChildReadStdin(k)
    \/ \E c \in CmdConns, id \in QueryIds :
            ops < MaxOps /\ WriteStdinLookup(c, id)
    \/ \E c \in CmdConns : WriteStdinCheck(c)
    \/ \E w \in Writes : WriterLock(w)
    \/ \E w \in Writes : WriterWrite(w)
    \/ \E c \in CmdConns : WriteStdinResult(c)
    \/ \E c \in CmdConns : WriteStdinTimeout(c)

SpecWriters == Init /\ [][NextWriters]_vars

\* ------------------------------------------------------------ after exit
\* One child without output that exits and is reaped while A is subscribed,
\* and the requests of two connections that look at it or write to it.
NextExit ==
    \/ \E c \in CmdConns, id \in {"", "cli"} :
            calls < MaxSpawns /\ SpawnAssignId(c, id)
    \/ \E c \in CmdConns : SpawnStartOk(c)
    \/ \E c \in CmdConns : SpawnInsert(c)
    \/ \E k \in Procs, code \in ExitCodes : ChildExit(k, code)
    \/ \E k \in Procs, s \in Streams : StreamEOF(k, s)
    \/ \E k \in Procs : ReaperExit(k)
    \/ \E k \in Procs : ReaperClose(k)
    \/ \E e \in Emitters : CallbackCheck(e)
    \/ \E e \in Emitters : CallbackWrite(e)
    \/ \E c \in SubConns : SubRegister(c)
    \/ \E c \in SubConns : SubAck(c)
    \/ \E c \in CmdConns, id \in {"cli", "proc-1"} :
            ops < MaxOps /\ IsRunningLookup(c, id)
    \/ \E c \in CmdConns : IsRunningReply(c)
    \/ \E c \in CmdConns, id \in {"cli", "proc-1"} :
            ops < MaxOps /\ WriteStdinLookup(c, id)
    \/ \E c \in CmdConns : WriteStdinCheck(c)
    \/ \E w \in Writes : WriterLock(w)
    \/ \E w \in Writes : WriterWrite(w)
    \/ \E c \in CmdConns : WriteStdinResult(c)
    \/ \E c \in CmdConns : WriteStdinExited(c)
    \/ \E c \in CmdConns : WriteStdinTimeout(c)

SpecExit == Init /\ [][NextExit]_vars

\* ------------------------------------------------------------ histories
Range(q) == {q[i] : i \in 1..Len(q)}
IsPrefix(p, q) == Len(p) <= Len(q) /\ \A i \in 1..Len(p) : p[i] = q[i]

\* The events of spawn call k in a sequence of events, and among them the
\* stdout events that came from pipe s.
EventsOf(q, k) == SelectSeq(q, LAMBDA e : e.proc = k)
StdoutOf(q, k, s) ==
    SelectSeq(q, LAMBDA e : e.type = "stdout" /\ e.proc = k /\ e.stream = s)
DataOf(q) == [i \in 1..Len(q) |-> q[i].data]
LinesUpTo(n) == [i \in 1..n |-> EventData(i)]

\* The events a connection's client has received, in order.
WireEvents(c) ==
    LET f == SelectSeq(wire[c], LAMBDA x : x.kind = "event")
    IN  [i \in 1..Len(f) |-> f[i].event]

\* The events emitted since connection c subscribed.
EmittedSince(c) == SubSeq(emitted, subFrom[c] + 1, Len(emitted))

\* The event an emitter still has to hand to connection c.
PendingFor(e, c) == IF c \in Range(em[e].todo) THEN <<em[e].ev>> ELSE <<>>

\* The number of lines of w before its first line over the scanner maximum.
OkPrefixLen(w) ==
    LET long == {i \in 1..Len(w) : w[i] = "long"}
    IN  IF long = {} THEN Len(w)
        ELSE (CHOOSE i \in long : \A j \in long : i <= j) - 1

Subscribed(c) == cpc[c] \in {"sub_ack", "sub_loop"}

\* ------------------------------------------------------------ C1
\* C1 as stated: once a child is reaped, every line it wrote on a stream
\* has produced one stdout event, in the order written.
C1_EveryLineOneEvent ==
    \A k \in Procs, s \in Streams :
        done[k] => DataOf(StdoutOf(emitted, k, s)) = LinesUpTo(Len(written[k][s]))

\* C1, amended: the lines of a stream that precede its first line over the
\* 10 MiB scanner maximum each produce exactly one stdout event bearing the
\* process id, emitted in the order written, none lost once the child is
\* reaped; no event has another type than stdout, exit or error; a
\* subscriber receives the stdout events of a stream in emission order, and
\* while its connection is open it has received, or is being handed, every
\* one emitted since it subscribed.
C1_LinesInOrder ==
    /\ \A i \in 1..Len(emitted) : emitted[i].type \in {"stdout", "exit", "error"}
    /\ \A k \in Procs, s \in Streams :
        /\ DataOf(StdoutOf(emitted, k, s)) = LinesUpTo(scanned[k][s])
        /\ \A e \in Range(StdoutOf(emitted, k, s)) : e.id = pid[k]
        /\ scanned[k][s] <= OkPrefixLen(written[k][s])
        /\ done[k] => scanned[k][s] = OkPrefixLen(written[k][s])
        /\ \A c \in SubConns :
            /\ IsPrefix(StdoutOf(WireEvents(c), k, s),
                        StdoutOf(EmittedSince(c), k, s))
            /\ Subscribed(c) /\ connOpen[c] =>
                StdoutOf(WireEvents(c), k, s)
                    \o StdoutOf(PendingFor(ReaderEm(k, s), c), k, s)
                = StdoutOf(EmittedSince(c), k, s)

\* A reaped child that wrote two lines on stderr, both received as stdout
\* events by the subscriber.
C1_Witness ==
    \E k \in Procs :
        /\ done[k]
        /\ written[k]["stderr"] = <<"ok", "ok">>
        /\ DataOf(StdoutOf(WireEvents("A"), k, "stderr")) = LinesUpTo(2)

\* ------------------------------------------------------------ C2
ExitPositions(q) == {i \in 1..Len(q) : q[i].type = "exit"}
StdoutPositions(q) == {i \in 1..Len(q) : q[i].type = "stdout"}

\* In q every stdout event of call k precedes the exit events of call k.
ExitLast(q, k) ==
    LET ev == EventsOf(q, k)
    IN  \A i \in ExitPositions(ev), j \in StdoutPositions(ev) : j < i

C4_AckIsFirstFrame ==
    \A c \in SubConns :
        wire[c] /= <<>> => wire[c][1] = SuccessReply([subscribed |-> TRUE])

\* ------------------------------------------------------------ C7
NonFatal(e) == e.type \in {"stdout", "exit"} \/ (e.type = "error" /\ ~e.fatal)

\* C7: every event of a process carries the id chosen for it, which is the
\* caller's id when that was non-empty and proc-N otherwise, and which is
\* the id spawn returned.
C7_EventIds ==
    \A q \in {emitted} \cup {WireEvents(c) : c \in SubConns} :
        \A e \in Range(q) :
            /\ e.id = IF reqId[e.proc] = "" THEN FormatProcId(num[e.proc])
                      ELSE reqId[e.proc]
            /\ NonFatal(e) => ret[e.proc] = e.id

\* The subscriber has received a stdout and an exit event under the
\* caller's id and spawn has returned that id.
C7_Witness ==
    \E k \in Procs :
        /\ reqId[k] = "cli" /\ ret[k] = "cli"
        /\ \E e \in Range(WireEvents("A")) : e.type = "stdout" /\ e.id = "cli"
        /\ \E e \in Range(WireEvents("A")) : e.type = "exit" /\ e.id = "cli"

\* ------------------------------------------------------------ C3
Started == {t \in Tasks : task[t] /= "ready"}
Finished == {t \in Tasks : task[t] = "done"}

AutoCalls == {k \in 1..calls : reqId[k] = ""}

\* C5: the spawn calls with an empty id each hold their own number: the
\* numbers grow in the order the calls took the counter, the counter is the
\* count of such calls made (so no number is handed out twice or taken
\* back, whether the child started or not), the id is proc-N and the ids of
\* two such calls differ; a call that returns, returns that id.
C5_AutoIdsIncrease ==
    /\ nextID = Cardinality(AutoCalls)
    /\ \A k \in AutoCalls :
        /\ num[k] >= 1 /\ num[k] <= nextID
        /\ pid[k] = "proc-" \o ToString(num[k])
        /\ ret[k] \notin {"none", ""} => ret[k] = pid[k]
    /\ \A j, k \in AutoCalls :
        j < k => num[j] < num[k] /\ pid[j] /= pid[k]

\* Two calls with an empty id are in spawn at the same time on two
\* connections: the first has failed to start its child and has not yet
\* returned, the second holds proc-2 and is about to enter the registry.
C5_Witness ==
    \E b, c \in CmdConns :
        /\ b /= c /\ cur[b] = 1 /\ cur[c] = 2
        /\ reqId[1] = "" /\ reqId[2] = ""
        /\ cpc[b] = "spawn_fail" /\ child[1] = "failed"
        /\ cpc[c] = "spawn_insert" /\ pid[2] = "proc-2"

\* ------------------------------------------------------------ C6
Inserted(k) == ret[k] \notin {"none", ""}

\* C6: the processes spawned so far have ids that differ pairwise, and the
\* registry still holds, under the id of each, the record of that process.
C6_IdsUnique ==
    /\ \A j, k \in Procs : Inserted(j) /\ Inserted(k) /\ j /= k => pid[j] /= pid[k]
    /\ \A k \in Procs : Inserted(k) =>
            pid[k] \in DOMAIN processes /\ processes[pid[k]] = k

\* ------------------------------------------------------------ C8
Last(q) == q[Len(q)]

\* C8: the reply to isProcessRunning(id) is a success reply whose running
\* field is true exactly when the lookup found a record under id and the
\* latch of that record is open when it is polled; without a record the
\* reply is running: false, not an error.
C8_IsRunning ==
    [][\A c \in CmdConns :
        /\ (req'[c] /= req[c] /\ req'[c].op = "isProcessRunning") =>
            /\ cpc'[c] = "isr_check" /\ wire'[c] = wire[c]
            /\ lq'[c] \in Procs <=> req'[c].id \in DOMAIN processes
            /\ lq'[c] \in Procs => processes[req'[c].id] = lq'[c]
            /\ lq'[c] \notin Procs => lq'[c] = 0
        /\ (cpc[c] = "isr_check" /\ cpc'[c] /= "isr_check") =>
            /\ cpc'[c] = "read"
            /\ wire'[c] = Append(wire[c],
                    [kind |-> "reply", success |-> TRUE,
                     result |-> [running |-> (lq[c] \in Procs /\ ~done[lq[c]])]])
            /\ lq[c] = 0 => Last(wire'[c]).result.running = FALSE
      ]_vars

\* One connection was told running: true while the child ran, and
\* running: false for the same id after the latch was closed.
C8_Witness ==
    \E c \in CmdConns :
        /\ Len(wire[c]) >= 2
        /\ req[c].op = "isProcessRunning"
        /\ lq[c] \in Procs /\ done[lq[c]]
        /\ SuccessReply([running |-> TRUE]) \in Range(wire[c])
        /\ Last(wire[c]) = SuccessReply([running |-> FALSE])

\* ------------------------------------------------------------ C9
\* C9: writeStdin(id) without a record under id replies
\* "process <id> not found"; with a record whose latch is closed when
\* polled it replies "process <id> has exited"; in both cases no writer
\* goroutine is started, no stdin pipe or lock is touched and the registry
\* is as before. With a record and an open latch neither error is replied.
C9_WriteStdinRejects ==
    [][\A c \in CmdConns :
        /\ (req'[c] /= req[c] /\ req'[c].op = "writeStdin") =>
            IF req'[c].id \notin DOMAIN processes
            THEN /\ wire'[c] = Append(wire[c],
                        [kind |-> "reply", success |-> FALSE,
                         error |-> "process " \o req'[c].id \o " not found"])
                 /\ cpc'[c] = "read"
                 /\ UNCHANGED <<processes, nwrites, wgo, stdinMu, stdinBuf>>
            ELSE /\ wire'[c] = wire[c]
                 /\ cpc'[c] = "ws_check"
                 /\ lq'[c] = processes[req'[c].id]
        /\ (cpc[c] = "ws_check" /\ cpc'[c] /= "ws_check") =>
            IF done[lq[c]]
            THEN /\ wire'[c] = Append(wire[c],
                        [kind |-> "reply", success |-> FALSE,
                         error |-> "process " \o req[c].id \o " has exited"])
                 /\ cpc'[c] = "read"
                 /\ UNCHANGED <<processes, nwrites, wgo, stdinMu, stdinBuf>>
            ELSE /\ wire'[c] = wire[c]
                 /\ cpc'[c] = "ws_select"
                 /\ wgo'[cw'[c]] = "lock" /\ wproc'[cw'[c]] = lq[c]
      ]_vars

\* Both rejections have been replied: one for an id without a record, one
\* for a reaped process.
C9_Witness ==
    /\ \E c \in CmdConns : ErrorReply("process ghost not found") \in Range(wire[c])
    /\ \E c \in CmdConns, k \in Procs :
        /\ done[k] /\ nwrites = 0
        /\ ErrorReply("process " \o pid[k] \o " has exited") \in Range(wire[c])

\* ------------------------------------------------------------ C10
\* The replies a writeStdin call in its select may give, with the condition
\* of each.
SelectOutcomes(c) ==
    {[kind |-> "reply", success |-> TRUE, result |-> Nil] : x \in
        {w \in {cw[c]} : wres[w] = "ok"}}
    \cup {[kind |-> "reply", success |-> FALSE, error |-> BrokenPipe] : x \in
        {w \in {cw[c]} : wres[w] = "err"}}
    \cup {[kind |-> "reply", success |-> FALSE,
           error |-> "process " \o req[c].id \o " exited during write"] : x \in
        {k \in {lq[c]} : done[k]}}
    \cup {[kind |-> "reply", success |-> FALSE,
           error |-> "stdin write timeout for process " \o req[c].id]}

\* C10: a writeStdin call that has passed the latch check returns, whatever
\* the child does with its stdin; it returns by writing one reply, which is
\* the result of the write when the write has returned, "exited during
\* write" when the latch is closed, or "stdin write timeout".
C10_WriteStdinReturns ==
    /\ \A c \in CmdConns : (cpc[c] = "ws_select") ~> (cpc[c] = "read")
    /\ [][\A c \in CmdConns :
            (cpc[c] = "ws_select" /\ cpc'[c] /= "ws_select") =>
                /\ cpc'[c] = "read"
                /\ \E r \in SelectOutcomes(c) : wire'[c] = Append(wire[c], r)
         ]_vars

\* A call has returned with the timeout while its writer goroutine is still
\* blocked on the full pipe of a running child that does not read.
C10_Witness ==
    \E c \in CmdConns :
        /\ cpc[c] = "read" /\ cw[c] /= 0
        /\ Last(wire[c]) = ErrorReply("stdin write timeout for process " \o req[c].id)
        /\ wgo[cw[c]] = "write"
        /\ child[wproc[cw[c]]] = "running"
        /\ stdinBuf[wproc[cw[c]]] = StdinCap

\* ------------------------------------------------------------ C11
\* C11: kill(id) without a record under id replies
\* "process <id> not found" and sends no signal. With a record it replies
\* success after one send: to the process group Getpgid returned, which is
\* the child's own group as long as the child has not been reaped, and to
\* the child process alone exactly when Getpgid failed. No step but the
\* send of a kill call sends a signal.
C11_Kill ==
    [][/\ \A c \in CmdConns :
            /\ (req'[c] /= req[c] /\ req'[c].op = "kill") =>
                /\ sent' = sent /\ got' = got
                /\ IF req'[c].id \notin DOMAIN processes
                   THEN /\ wire'[c] = Append(wire[c],
                                [kind |-> "reply", success |-> FALSE,
                                 error |-> "process " \o req'[c].id \o " not found"])
                        /\ cpc'[c] = "read"
                   ELSE /\ wire'[c] = wire[c]
                        /\ cpc'[c] = "kill_pgid"
                        /\ lq'[c] = processes[req'[c].id]
            /\ (cpc[c] = "kill_pgid" /\ cpc'[c] /= "kill_pgid") =>
                /\ sent' = sent /\ got' = got
                /\ rp[lq[c]] \notin {"close", "done"} => kpg'[c] = "own"
            /\ (cpc[c] = "kill_send" /\ cpc'[c] /= "kill_send") =>
                /\ cpc'[c] = "read"
                /\ wire'[c] = Append(wire[c],
                        [kind |-> "reply", success |-> TRUE, result |-> Nil])
                /\ Len(sent') = Len(sent) + 1
                /\ sent'[Len(sent')].proc = lq[c]
                /\ sent'[Len(sent')].sig = ksig[c]
                /\ sent'[Len(sent')].to = "proc" <=> kpg[c] = "fail"
                /\ kpg[c] /= "fail" => sent'[Len(sent')].to = kpg[c]
       /\ sent' /= sent => \E c \in CmdConns : cpc[c] = "kill_send" /\ cpc'[c] = "read"
      ]_vars

\* kill has signalled the group of a running child, and has refused an
\* unknown id without sending anything.
C11_Witness ==
    /\ Len(sent) = 1
    /\ sent[1].to = "own" /\ sent[1].sig \in got[sent[1].proc]
    /\ \E c \in CmdConns :
        /\ req[c].op = "kill" /\ req[c].id = "ghost" /\ req[c].n = 2
        /\ wire[c] /= <<>>
        /\ wire[c][Len(wire[c])] = ErrorReply("process ghost not found")

\* kill has fallen back to the process after a failed group lookup.
KillFellBack == \E i \in 1..Len(sent) : sent[i].to = "proc"

\* ------------------------------------------------------------ C12
\* The canonical names of spec.md's list, by Linux signal number.
CanonicalNames ==
    (15 :> "SIGTERM") @@ (9 :> "SIGKILL") @@ (2 :> "SIGINT") @@ (3 :> "SIGQUIT")
    @@ (1 :> "SIGHUP") @@ (10 :> "SIGUSR1") @@ (12 :> "SIGUSR2")
    @@ (13 :> "SIGPIPE") @@ (6 :> "SIGABRT") @@ (11 :> "SIGSEGV")
NameOfSignal(n) ==
    IF n \in DOMAIN CanonicalNames THEN CanonicalNames[n] ELSE "SIG" \o ToString(n)

\* C12: the exit event of a child that exited with status C has
\* exitCode = C and no signal field; the exit event of a child terminated by
\* signal n has the signal field, holding the canonical name of n, or
\* SIG<n> when n is not one of the ten named signals.
C12_ExitReportsEnding ==
    /\ \A n \in 1..31 : signalName(n) = NameOfSignal(n)
    /\ \A i \in 1..Len(emitted) :
        LET e == emitted[i] IN
        e.type = "exit" =>
            IF termSig[e.proc] = 0
            THEN e.exitCode = exitCode[e.proc] /\ "signal" \notin DOMAIN e
            ELSE "signal" \in DOMAIN e /\ e.signal = NameOfSignal(termSig[e.proc])

\* kill with an empty signal name reached a running child, the child died
\* of SIGTERM and its exit event says so.
C12_Witness ==
    \E i \in 1..Len(emitted) :
        /\ emitted[i].type = "exit"
        /\ termSig[emitted[i].proc] = 15
        /\ 15 \in got[emitted[i].proc]
        /\ "signal" \in DOMAIN emitted[i] /\ emitted[i].signal = "SIGTERM"

\* ------------------------------------------------------------ C13
\* C13: a spawn call whose child failed to start has emitted one event, the
\* error event with fatal: true under the chosen id, and returns a failure:
\* the reply of its connection is an error, no registry entry holds a
\* record of the call, its readers and its reaper were never started, and
\* no stdout or exit event comes from it. Every call that has returned has
\* got one reply.
C13_StartFailure ==
    /\ Len(wire["B"]) + Len(wire["C"]) =
           Cardinality({k \in Procs : ret[k] /= "none"})
               - Cardinality({c \in CmdConns : cpc[c] = "spawn_fail"})
    /\ \A k \in Procs :
        child[k] = "failed" =>
            /\ EventsOf(emitted, k) =
                    <<[type |-> "error", id |-> pid[k], fatal |-> TRUE,
                       proc |-> k, stream |-> "-"]>>
            /\ ret[k] = ""
            /\ \A id \in DOMAIN processes : processes[id] /= k
            /\ rp[k] = "off" /\ \A s \in Streams : rd[k][s] = "off"
            /\ \A c \in CmdConns :
                cur[c] = k =>
                    /\ cpc[c] \in {"spawn_fail", "read"}
                    /\ cpc[c] = "read" =>
                        /\ wire[c] /= <<>>
                        /\ Last(wire[c]) = ErrorReply("starting process")
            /\ \A c \in SubConns :
                \A e \in Range(EventsOf(WireEvents(c), k)) : e.type = "error" /\ e.fatal

\* The child failed to start: the subscriber holds the fatal error event
\* and the caller holds the failure reply.
C13_Witness ==
    \E k \in Procs, c \in CmdConns :
        /\ child[k] = "failed" /\ cur[c] = k /\ cpc[c] = "read"
        /\ wire[c] = <<ErrorReply("starting process")>>
        /\ \E e \in Range(WireEvents("A")) : e.type = "error" /\ e.fatal /\ e.id = pid[k]

\* ------------------------------------------------------------ framing
\* A payload length ReadMessage accepts.
ValidPayload(s) == 1 <= BLen(s) /\ BLen(s) <= MaxMessageSize

\* The frames before the i-th all carry valid payloads.
ValidBefore(i) == \A j \in 1..(i - 1) : ValidPayload(begun[j])

\* The number of bytes of the frames before the i-th.
RECURSIVE BytesBefore(_)
BytesBefore(i) == IF i <= 1 THEN 0 ELSE BytesBefore(i - 1) + 4 + BLen(begun[i - 1])

\* The i-th frame is the one the client's close cut short.
Truncated(i) == inEof /\ i = Len(begun) /\ outgoing /= <<>>

\* The 4 header bytes of the i-th frame have reached the socket.
HeaderArrived(i) == i < Len(begun) \/ BLen(outgoing) <= BLen(begun[i])

\* C14: every frame WriteMessage produces for a payload of 1 to 10 MiB bytes
\* is read back by ReadMessage as exactly that payload, frame by frame in
\* the order written; such a frame fails to read only when the stream
\* ended inside it.
C14_RoundTrip ==
    /\ Len(readLog) <= Len(begun) + 1
    /\ \A i \in 1..Len(readLog) :
          (i <= Len(begun) /\ ValidBefore(i) /\ ValidPayload(begun[i])) =>
              IF readLog[i].ok
              THEN readLog[i] = ReadOk(begun[i])
              ELSE Truncated(i)

\* The 258-byte payload and then the 10 MiB payload have been read back.
C14_Witness ==
    /\ Len(readLog) = 2
    /\ readLog[1] = ReadOk(<<[b |-> 1, n |-> 1], [b |-> 2, n |-> 257]>>)
    /\ readLog[2] = ReadOk(<<[b |-> 3, n |-> MaxMessageSize]>>)
    /\ begun = <<readLog[1].payload, readLog[2].payload>>

\* C15: ReadMessage returns an error and no payload for a frame cut short
\* by the end of the stream, for a declared length of 0 and for a declared
\* length above 10 MiB; it accepts a declared length of exactly 10 MiB; and
\* after rejecting a length it has read the 4 header bytes and nothing more.
C15_ReadErrors ==
    \A i \in 1..Len(readLog) :
        (i <= Len(begun) /\ ValidBefore(i)) =>
            /\ ~readLog[i].ok => "payload" \notin DOMAIN readLog[i]
            /\ ~HeaderArrived(i) =>
                   /\ Truncated(i)
                   /\ readLog[i] = ReadError("reading length prefix")
            /\ (HeaderArrived(i) /\ BLen(begun[i]) = 0) =>
                   /\ readLog[i] = ReadError("zero-length message")
                   /\ consumed = BytesBefore(i) + 4
            /\ (HeaderArrived(i) /\ BLen(begun[i]) > MaxMessageSize) =>
                   /\ readLog[i] = ReadError("message too large")
                   /\ consumed = BytesBefore(i) + 4
            /\ (HeaderArrived(i) /\ ValidPayload(begun[i]) /\ Truncated(i)) =>
                   readLog[i] = ReadError("reading payload")
            /\ (BLen(begun[i]) = MaxMessageSize /\ ~Truncated(i)) =>
                   readLog[i] = ReadOk(begun[i])

\* A 10 MiB frame was accepted and the frame after it, one byte longer,
\* rejected.
C15_Witness ==
    /\ Len(readLog) = 2
    /\ readLog[1] = ReadOk(<<[b |-> 3, n |-> MaxMessageSize]>>)
    /\ readLog[2] = ReadError("message too large")
    /\ consumed = MaxMessageSize + 8

\* A frame was cut short inside its header, or inside its payload.
CutInHeader ==
    Len(begun) = 1 /\ readLog = <<ReadError("reading length prefix")>> /\ consumed = 3
CutInPayload ==
    /\ begun = << <<[b |-> 3, n |-> MaxMessageSize]>> >>
    /\ readLog = <<ReadError("reading payload")>>
    /\ consumed = 4 + MaxMessageSize - 1
ZeroRejected ==
    Len(readLog) = 2 /\ readLog[1].ok /\ readLog[2] = ReadError("zero-length message")

\* ------------------------------------------------------------ dispatch
\* The worker of connection c reads in this step, and what it read.
Reads(c) == lastRead'[c] /= lastRead[c]
ReadsPayload(c) == Reads(c) /\ "payload" \in DOMAIN lastRead'[c]

\* The worker of c is in handleConnection's loop, not in a subscription.
Dispatching(c) == served[c] = "open"

\* The step leaves every connection other than c as it was.
OthersUntouched(c) ==
    \A d \in Conns \ {c} :
        /\ served'[d] = served[d]
        /\ connOpen'[d] = connOpen[d]
        /\ wire'[d] = wire[d]
        /\ lastRead'[d] = lastRead[d]

\* The step writes exactly this one frame on c.
Replies(c, reply) == wire'[c] = Append(wire[c], reply)

\* C16: when reading a frame fails on a connection, the server writes no
\* reply, closes that connection (its worker handles no further frame: it
\* writes nothing more on it and its next read, if any, ends it), and
\* leaves the listener, the other connections and the processes unchanged.
C16_ReadFailureClosesConnection ==
    [][\A c \in CmdConns :
          /\ failures'[c] > failures[c] =>
                /\ wire' = wire
                /\ Dispatching(c) => served'[c] = "closed"
                /\ OthersUntouched(c)
                /\ listener' = listener
                /\ UNCHANGED <<procVars, ioVars>>
          /\ failures[c] > 0 =>
                /\ wire'[c] = wire[c]
                /\ Reads(c) => served'[c] = "closed"]_vars

\* The same for a read that fails in handleConnection's own loop.
ReadFailureInLoopCloses ==
    [][\A c \in CmdConns :
          (failures'[c] > failures[c] /\ Dispatching(c)) =>
              /\ wire' = wire
              /\ served'[c] = "closed"
              /\ OthersUntouched(c)
              /\ listener' = listener
              /\ backendLog' = backendLog
              /\ UNCHANGED <<procVars, ioVars>>]_vars

\* A connection was closed on a failed read while the other one is served.
ReadFailureSeen ==
    /\ served["B"] = "closed" /\ failures["B"] = 1 /\ wire["B"] /= <<>>
    /\ served["C"] = "subscribed"

\* The method a payload asks for, when it is an object whose `method` is a
\* string or missing.
IsRequest(payload) ==
    /\ payload.t = "object"
    /\ Member(payload.members, "method").t \in {"string", "absent"}
MethodOf(payload) ==
    IF Member(payload.members, "method").t = "string"
    THEN Member(payload.members, "method").v ELSE ""

\* C17: a request whose method is none of the 17 operations gets exactly
\* one reply, the failure "Method not found: <m>"; no backend operation
\* is invoked and the connection stays open.
C17_MethodNotFound ==
    [][\A c \in CmdConns :
          (/\ ReadsPayload(c) /\ Dispatching(c)
           /\ IsRequest(lastRead'[c].payload)
           /\ MethodOf(lastRead'[c].payload) \notin Methods) =>
              /\ Cardinality(Methods) = 17
              /\ Replies(c, ErrorReply("Method not found: "
                                         \o MethodOf(lastRead'[c].payload)))
              /\ backendLog' = backendLog
              /\ served'[c] = "open" /\ connOpen'[c]
              /\ OthersUntouched(c)]_vars

\* frobnicate was refused on B and the next request on B was answered.
C17_Witness ==
    /\ Len(wire["B"]) = 2
    /\ wire["B"][1] = ErrorReply("Method not found: frobnicate")
    /\ wire["B"][2] = SuccessReply([running |-> TRUE])
    /\ Len(backendLog) = 1

\* The payload is not JSON, or JSON that is no request object.
Undecodable(payload) ==
    \/ payload.t \in {"invalid", "array", "string", "number", "bool"}
    \/ /\ payload.t = "object"
       /\ Member(payload.members, "method").t
              \in {"number", "bool", "array", "object"}

\* C18: a frame whose payload does not decode as a request gets exactly one
\* reply, the failure "Parse error"; no backend operation is invoked and
\* the connection stays in its dispatch loop.
C18_ParseError ==
    [][\A c \in CmdConns :
          (/\ ReadsPayload(c) /\ Dispatching(c)
           /\ Undecodable(lastRead'[c].payload)) =>
              /\ Replies(c, ErrorReply("Parse error"))
              /\ backendLog' = backendLog
              /\ served'[c] = "open" /\ connOpen'[c]
              /\ OthersUntouched(c)]_vars

\* Bytes that are not JSON were refused on B and the next frame on B was
\* dispatched and answered.
C18_Witness ==
    /\ Len(wire["B"]) = 2
    /\ wire["B"][1] = ErrorReply("Parse error")
    /\ wire["B"][2] = SuccessReply([running |-> FALSE])
    /\ backendLog[1].conn = "B"
    /\ backendLog[1].call.method = "isProcessRunning"

\* The result shapes of the operations table.
DeclaredResult(method, r) ==
    CASE method \in {"isRunning", "isProcessRunning"} ->
            DOMAIN r = {"running"} /\ r.running \in BOOLEAN
      [] method = "isGuestConnected" ->
            DOMAIN r = {"connected"} /\ r.connected \in BOOLEAN
      [] method = "spawn" -> DOMAIN r = {"id"}
      [] method = "readFile" -> DOMAIN r = {"data"}
      [] method = "subscribeEvents" -> r = [subscribed |-> TRUE]
      [] method = "getDownloadStatus" ->
            DOMAIN r = {"status"} /\ r.status \in {"Ready", "NotDownloaded"}
      [] OTHER -> r = Nil

\* The operations that take params, and the params that are missing or do
\* not decode into the operation's parameter shape.
TakesParams(method) == method /= "getDownloadStatus"
BadlyFormed(method, params) ==
    TakesParams(method) /\ Unmarshal(params, ParamsOf(method)).err /= ""

\* The step answers c with "Invalid params: <detail>" and invokes nothing.
RefusesParams(c, method, params) ==
    /\ Replies(c, ErrorReply("Invalid params: "
                               \o Unmarshal(params, ParamsOf(method)).err))
    /\ backendLog' = backendLog

\* The step invokes the operation once and answers c with its outcome: the
\* declared result, or the failure the backend returned.
InvokesAndAnswers(c, method) ==
    /\ Len(backendLog') = Len(backendLog) + 1
    /\ SubSeq(backendLog', 1, Len(backendLog)) = backendLog
    /\ LET b == backendLog'[Len(backendLog')]
           reply == wire'[c][Len(wire'[c])]
       IN  /\ b.conn = c /\ b.call.method = method
           /\ Len(wire'[c]) = Len(wire[c]) + 1
           /\ IF reply.success THEN DeclaredResult(method, reply.result)
              ELSE b.out.err /= "" /\ reply = ErrorReply(b.out.err)
           /\ b.out.err = "" => reply.success

\* A request for one of the operations arrives in the dispatch loop of c.
Dispatches(c) ==
    /\ ReadsPayload(c) /\ Dispatching(c)
    /\ IsRequest(lastRead'[c].payload)
    /\ MethodOf(lastRead'[c].payload) \in Methods

\* C19, as stated: for each method of the operations table, missing or
\* undecodable params are answered "Invalid params: <detail>" without
\* invoking the backend; valid params are answered with the declared
\* result.
C19_ParamsChecked ==
    [][\A c \in CmdConns :
          Dispatches(c) =>
              LET method == MethodOf(lastRead'[c].payload)
                  params == Member(lastRead'[c].payload.members, "params")
              IN  IF BadlyFormed(method, params)
                  THEN RefusesParams(c, method, params)
                  ELSE InvokesAndAnswers(c, method)]_vars

\* The operations whose handler does not check the decoding of params.
Lenient == {"isRunning", "isGuestConnected", "subscribeEvents"}

\* C19, amended: as stated for every method except isRunning,
\* isGuestConnected and subscribeEvents; these three invoke the backend
\* whatever the params are, with an empty name when params are missing or
\* do not decode.
C19_ParamsCheckedExceptLenient ==
    [][\A c \in CmdConns :
          Dispatches(c) =>
              LET method == MethodOf(lastRead'[c].payload)
                  params == Member(lastRead'[c].payload.members, "params")
              IN  IF BadlyFormed(method, params) /\ method \notin Lenient
                  THEN RefusesParams(c, method, params)
                  ELSE /\ InvokesAndAnswers(c, method)
                       /\ BadlyFormed(method, params) =>
                              backendLog'[Len(backendLog')].call.p.name = ""]_vars

\* kill without params was refused on B, and subscribeEvents without params
\* was accepted on C with an empty name.
C19_Witness ==
    /\ lastRead["B"].n = 1
    /\ "payload" \in DOMAIN lastRead["B"]
    /\ lastRead["B"].payload = Request("kill", Absent)
    /\ wire["B"] = <<ErrorReply("Invalid params: unexpected end of JSON input")>>
    /\ wire["C"] = <<SuccessReply([subscribed |-> TRUE])>>
    /\ Len(backendLog) = 1
    /\ backendLog[1].call = [method |-> "subscribeEvents", p |-> [name |-> ""]]

\* ------------------------------------------------------------ path remap
\* d with every occurrence of from, read from the left, replaced by to.
RECURSIVE Substituted(_, _, _)
Substituted(d, from, to) ==
    IF d = <<>> THEN <<>>
    ELSE IF Len(d) >= Len(from) /\ SubSeq(d, 1, Len(from)) = from
    THEN to \o Substituted(SubSeq(d, Len(from) + 1, Len(d)), from, to)
    ELSE <<Head(d)>> \o Substituted(Tail(d), from, to)

\* d after the substitution of each mount of the list, first to last.
RECURSIVE MountsSubstituted(_, _)
MountsSubstituted(d, remaps) ==
    IF remaps = <<>> THEN d
    ELSE MountsSubstituted(Substituted(d, remaps[1].from, remaps[1].to),
                           Tail(remaps))

\* The process was spawned with a virtual and a real prefix.
HasPrefixes == spawnedWith.v /= <<>> /\ spawnedWith.r /= <<>>

\* C20: with vmPrefix V and realPrefix R, the bytes writeStdin hands to the
\* child are the data with every V replaced by R and then each mount's
\* `from` by its `to` in list order, whether or not V exists on disk; the
\* data of an output event is the line with every R replaced by V if V
\* existed when the process was spawned, and the line itself if not.
C20_PathRemap ==
    HasPrefixes =>
        /\ \A i \in 1..Len(stdinLog) :
              stdinLog[i].err = "" =>
                  stdinLog[i].written =
                      StripSkillPrefix(
                          MountsSubstituted(
                              Substituted(stdinLog[i].data, spawnedWith.v,
                                          spawnedWith.r),
                              lproc.mountRemap))
        /\ \A i \in 1..Len(outLog) :
              outLog[i].event.data =
                  IF spawnedWith.existed
                  THEN Substituted(outLog[i].text \o <<"\n">>, spawnedWith.r,
                                   spawnedWith.v)
                  ELSE outLog[i].text \o <<"\n">>

\* V did not exist at the spawn and exists now: a write of V/m reached the
\* child as the target of the second mount, and a line with R was emitted
\* as it was.
C20_Witness ==
    /\ spawnedWith = [v |-> VmPath, r |-> <<"/", "h", "/", "s">>, existed |-> FALSE]
    /\ vmExists
    /\ Len(lproc.mountRemap) = 2
    /\ Len(stdinLog) = 1 /\ Len(outLog) = 1
    /\ stdinLog[1].data = VmPath \o <<"/", "m">>
    /\ stdinLog[1].err = ""
    /\ stdinLog[1].written = <<"/", "u">>
    /\ outLog[1].text = <<"/", "h", "/", "s", "/", "m">>
    /\ outLog[1].event.data = <<"/", "h", "/", "s", "/", "m", "\n">>

\* V existed at the spawn: a line with R was emitted with V in its place.
ReverseApplied ==
    /\ spawnedWith = [v |-> VmPath, r |-> <<"/", "r">>, existed |-> TRUE]
    /\ ~vmExists
    /\ Len(outLog) = 1
    /\ outLog[1].text = <<"/", "r", "/", "m">>
    /\ outLog[1].event.data = <<"/", "s", "/", "m", "\n">>
    /\ outLog[1].event.type = "stdout"

\* ------------------------------------------------------------ skill prefix
\* An occurrence of the pattern starts at position i of d: the marker, a
\* non-empty run of name characters, a colon.
SkillPrefixAt(d, i) ==
    /\ d[i] = Marker
    /\ \E n \in 1..(Len(d) - i - 1) :
          /\ \A j \in (i + 1)..(i + n) : d[j] \in NameChars
          /\ d[i + n + 1] = ":"

\* The positions of d that belong to the prefix and colon of an occurrence.
PrefixPositions(d) ==
    {j \in 1..Len(d) :
        \E i \in 1..(j - 1) :
            /\ SkillPrefixAt(d, i)
            /\ \A m \in (i + 1)..(j - 1) : d[m] \in NameChars
            /\ d[j] \in NameChars \cup {":"}
            /\ \E e \in j..Len(d) :
                  d[e] = ":" /\ \A m \in j..(e - 1) : d[m] \in NameChars}

\* d without the positions of the set gone.
Without(d, gone) ==
    LET kept == (1..Len(d)) \ gone IN
    [k \in 1..Cardinality(kept) |->
        d[CHOOSE j \in kept : Cardinality({x \in kept : x <= j}) = k]]

\* The data of write i as it is after the path and mount remaps.
Remapped(i) ==
    MountsSubstituted(
        IF HasPrefixes
        THEN Substituted(stdinLog[i].data, spawnedWith.v, spawnedWith.r)
        ELSE stdinLog[i].data,
        lproc.mountRemap)

HasMarker(d) == \E j \in 1..Len(d) : d[j] = Marker

\* C21: the bytes writeStdin hands to the child are the data, after the
\* path remaps, with the prefix and colon of every occurrence of
\* `"content":"/<prefix>:` removed, <prefix> a non-empty run of name
\* characters; data without the marker is delivered as the remaps left it,
\* which is the payload itself when no remap applies to it.
C21_SkillPrefixStripped ==
    \A i \in 1..Len(stdinLog) :
        stdinLog[i].err = "" =>
            /\ stdinLog[i].written =
                  Without(Remapped(i), PrefixPositions(Remapped(i)))
            /\ ~HasMarker(stdinLog[i].data) =>
                  /\ stdinLog[i].written = Remapped(i)
                  /\ (~HasPrefixes /\ lproc.mountRemap = <<>>) =>
                        stdinLog[i].written = stdinLog[i].data

\* `"content":"/x-A:m t` reached the child as `"content":"/m t`, and of two
\* invocations in one payload both lost their prefix.
C21_Witness ==
    /\ Len(stdinLog) = 2
    /\ stdinLog[1].data = <<Marker, "x", "-", "A", ":", "m", " ", "t">>
    /\ stdinLog[1].err = ""
    /\ stdinLog[1].written = <<Marker, "m", " ", "t">>
    /\ stdinLog[2].data = <<Marker, "x", ":", Marker, "m", "_", "0", ":">>
    /\ stdinLog[2].err = ""
    /\ stdinLog[2].written = <<Marker, Marker>>

\* A payload without the marker reached the child as it was; an empty prefix
\* was left in place.
SkillPrefixUntouched ==
    /\ Len(stdinLog) = 2
    /\ stdinLog[1].data = <<"x", ":", "m">>
    /\ stdinLog[1].err = ""
    /\ stdinLog[1].written = <<"x", ":", "m">>
    /\ stdinLog[2].data = <<Marker, ":", "x">>
    /\ stdinLog[2].err = ""
    /\ stdinLog[2].written = <<Marker, ":", "x">>

\* ------------------------------------------------------------ the event bus
\* The slot was registered before event n was emitted and not cancelled by
\* then.
LiveAt(n, j) ==
    /\ j <= Len(slotConn)
    /\ slotConn[j].from < n
    /\ \A k \in 1..Len(cancelLog) :
          cancelLog[k].slot = j => cancelLog[k].at >= n

\* The goroutine of the callback of slot j for event n can take its next
\* step, or waits for writeMu while the holder is inside WriteMessage and
\* can leave it.
CanProceed(n, j) ==
    CASE cbpc[n][j] = "check" -> ENABLED CbCheck(n, j)
      [] cbpc[n][j] = "lock" ->
            \/ ENABLED CbLock(n, j)
            \/ /\ writeMu[j] /= Free
               /\ cbpc[writeMu[j][1]][j] = "write"
               /\ ENABLED CbWriteEnd(writeMu[j][1], j)
      [] cbpc[n][j] = "write" -> ENABLED CbWriteEnd(n, j)
      [] cbpc[n][j] = "store" -> ENABLED CbStore(n, j)
      [] OTHER -> TRUE

\* Connection b can be served its next request.
CanServe(b) ==
    (cpc[b] = "read" /\ connOpen[b] /\ Len(wire[b]) < MaxEmits) =>
        /\ ENABLED BusRequest(b, "startVM", TRUE)
        /\ ENABLED BusRequest(b, "spawn", TRUE)

\* C22: when the client of a subscribed connection has closed it, no
\* callback of its subscription is blocked, a request on B that emits or
\* spawns can be served, every event was handed to the callback of each
\* other subscription that was live when it was emitted, and a callback of
\* another subscription that has returned without a failed write has put
\* its event on that subscription's connection.
C22_FanOutSurvivesClose ==
    \A a \in BusSubs :
        ~connOpen[a] =>
            /\ \A n \in Events, i \in 1..Len(slotConn) :
                  slotConn[i].conn = a => CanProceed(n, i)
            /\ CanServe("B")
            /\ \A n \in 1..Len(emitted), j \in 1..Len(slotConn) :
                  slotConn[j].conn /= a =>
                      /\ LiveAt(n, j) => cbpc[n][j] /= "none"
                      /\ (cbpc[n][j] \in {"done", "skipped"} /\ wfailed[j] = 0) =>
                            \E k \in 1..Len(wire[slotConn[j].conn]) :
                                wire[slotConn[j].conn][k] = EventFrame(emitted[n])

\* A and C are subscribed and A is closed, its worker still in the read
\* loop; the event of B's startVM failed to reach A, whose callback has
\* returned, and has reached C; B's spawn after it was answered with an id.
C22_Witness ==
    /\ Len(slotConn) = 2
    /\ slotConn[1].conn = "A" /\ slotConn[2].conn = "C"
    /\ ~connOpen["A"] /\ cpc["A"] = "sub_loop"
    /\ connOpen["C"]
    /\ Len(emitted) = 1
    /\ cbpc[1][1] = "done" /\ wfailed[1] > 0
    /\ cbpc[1][2] = "done"
    /\ wire["A"] = <<SuccessReply([subscribed |-> TRUE])>>
    /\ wire["C"] = <<SuccessReply([subscribed |-> TRUE]), EventFrame(VmEvent(1))>>
    /\ wire["B"] = <<SuccessReply(Nil), SuccessReply([id |-> "proc-1"])>>

\* ------------------------------------------------------------ the child's environment
Spawned == cmdEnv /= <<"nil">>
Nested == {"CLAUDECODE", "CLAUDE_CODE_ENTRYPOINT"}

\* C23: the environment of a spawned child has no variable named
\* CLAUDECODE or CLAUDE_CODE_ENTRYPOINT, wherever it came from and whether
\* or not the caller's map is empty; every other variable of the caller's
\* map has the caller's value, also when the service's environment has the
\* name, and every other inherited variable the caller did not pass has the
\* inherited value.
C23_ChildEnv ==
    Spawned =>
        /\ \A j \in 1..Len(cmdEnv) :
              EntryName(cmdEnv[j]) \notin {Name(k) : k \in Nested}
        /\ \A k \in Nested : Getenv(cmdEnv, k) = ""
        /\ \A j \in 1..Len(envReq) :
              envReq[j] \notin Nested => Getenv(cmdEnv, envReq[j]) = "req"
        /\ \A k \in InheritedNames \ Nested :
              (Getenv(osEnviron, k) = "sup" /\ \A j \in 1..Len(envReq) : envReq[j] /= k)
                  => Getenv(cmdEnv, k) = "sup"

\* The service has both variables and PATH; the caller passes PATH, a
\* variable whose name starts with CLAUDECODE, and CLAUDECODE itself.
C23_Witness ==
    /\ Spawned
    /\ \A k \in Nested \cup {"PATH"} : Getenv(osEnviron, k) = "sup"
    /\ envReq = <<"CLAUDECODE", "PATH", "CLAUDECODE_X">>
    /\ Getenv(cmdEnv, "PATH") = "req"
    /\ Getenv(cmdEnv, "CLAUDECODE_X") = "req"
    /\ Getenv(cmdEnv, "CLAUDECODE") = ""

\* The caller's map is empty and the service has both variables.
EmptyMapStripped ==
    /\ Spawned
    /\ envReq = <<>>
    /\ \A k \in Nested \cup {"HOME"} : Getenv(osEnviron, k) = "sup"
    /\ Getenv(cmdEnv, "HOME") = "sup"
    /\ Len(cmdEnv) = Len(osEnviron) - 2

\* The connection has issued subscribeEvents.
HasSubscribed(c) == \E i \in 1..Len(slotConn) : slotConn[i].conn = c

\* The call w that is inside conn.Write on c holds the writeMu of a
\* subscription of c.
HoldsWriteMu(c, w) ==
    \E i \in 1..Len(slotConn) :
        slotConn[i].conn = c /\ writeMu[i] /= Free /\ w = EventWriter(writeMu[i][1], i)

\* C24: on a connection that has issued subscribeEvents, every call that is
\* inside conn.Write, for an event or for a reply, holds the connection's
\* write mutex, and no two calls are inside conn.Write at a time.
C24_WritesUnderMutex ==
    \A c \in BusSubs :
        HasSubscribed(c) =>
            /\ \A w \in writers[c] : HoldsWriteMu(c, w)
            /\ Cardinality(writers[c]) <= 1

\* The event writes of one subscription exclude each other.
EventWritesExclusive ==
    \A i \in Slots :
        Cardinality({n \in Events : cbpc[n][i] = "write"}) <= 1

\* The initial reply and an event are inside conn.Write on A together.
AckRacesEvent ==
    /\ cpc["A"] = "sub_ackw"
    /\ writers["A"] = {AckWriter, EventWriter(1, 1)}

\* ------------------------------------------------------------ the latch
\* The events a step hands to emit.
NewlyEmitted == {emitted'[j] : j \in (Len(emitted) + 1)..Len(emitted')}

\* C25: the latch of a record is closed by the one step of its reaper that
\* ends it, stays closed, and once it is closed no step emits a stdout or
\* error event with the id of the record.
C25_LatchOnce ==
    [][\A k \in Procs :
          /\ done'[k] /= done[k] => (~done[k] /\ rp[k] = "close" /\ rp'[k] = "done")
          /\ done[k] =>
                \A e \in NewlyEmitted :
                    e.id = pid[k] => e.type \notin {"stdout", "error"}]_vars

\* Once the latch of a record is closed no step emits an event of that
\* record's child.
LatchClosesRecord ==
    [][\A k \in Procs :
          /\ done'[k] /= done[k] => (~done[k] /\ rp[k] = "close" /\ rp'[k] = "done")
          /\ done[k] => \A e \in NewlyEmitted : e.proc /= k]_vars

\* Two children were given the id "cli"; the latch of the first is closed
\* and a line of the second was emitted after the exit event of the first.
StdoutAfterLatch ==
    /\ pid[1] = "cli" /\ pid[2] = "cli"
    /\ done[1] /\ ~done[2]
    /\ \E i, j \in 1..Len(emitted) :
          /\ i < j
          /\ emitted[i].type = "exit" /\ emitted[i].proc = 1
          /\ emitted[j].type = "stdout" /\ emitted[j].proc = 2

\* ------------------------------------------------------------ stdin mutex
\* The writer goroutines that are inside lp.stdin.Write of record k.
Writing(k) == {w \in Writes : wgo[w] = "write" /\ wproc[w] = k}

\* C26: at most one writer goroutine is inside the Write on a child's stdin,
\* and it is the holder of that record's mutex; a writer that waits for the
\* mutex of a record can take it as soon as that mutex is free, whatever
\* the mutexes of the other records.
C26_StdinExclusive ==
    /\ \A k \in Procs :
          /\ Cardinality(Writing(k)) <= 1
          /\ Writing(k) = IF stdinMu[k] = 0 THEN {} ELSE {stdinMu[k]}
    /\ \A w \in Writes :
          (wgo[w] = "lock" /\ stdinMu[wproc[w]] = 0) => ENABLED WriterLock(w)

\* Two calls for the same child: the writer of one is inside the Write, on
\* a full pipe, and the writer of the other waits for the mutex.
C26_Witness ==
    /\ wproc[1] = wproc[2] /\ wproc[1] /= 0
    /\ wgo[1] = "write" /\ wgo[2] = "lock"
    /\ stdinMu[wproc[1]] = 1
    /\ cpc["B"] = "ws_select" /\ cpc["C"] = "ws_select"

\* Two calls for two children: both writers are inside their Write.
WritersOfTwoChildren ==
    /\ wproc[1] /= 0 /\ wproc[2] /= 0 /\ wproc[1] /= wproc[2]
    /\ wgo[1] = "write" /\ wgo[2] = "write"

\* ------------------------------------------------------------ the cancelled flag
\* The step leaves the connection of slot i as it is: nothing is written
\* and nobody enters conn.Write.
ConnUntouched(i) ==
    /\ wire'[slotConn[i].conn] = wire[slotConn[i].conn]
    /\ writers'[slotConn[i].conn] = writers[slotConn[i].conn]
    /\ writeMu'[i] = writeMu[i]

\* Event n was emitted after a write of subscription i had failed.
EmittedAfterFailure(n, i) == wfailed[i] > 0 /\ n >= wfailed[i]

\* C27: after an event write of a subscription has failed, the callback of
\* no event emitted afterwards enters WriteMessage.
C27_NoWriteAfterFailure ==
    [][\A n \in Events, i \in Slots :
          EmittedAfterFailure(n, i) =>
              ~(cbpc[n][i] = "lock" /\ cbpc'[n][i] = "write")]_vars

\* C27 as the code has it: the flag is set by the callback whose write
\* failed, in a step of its own after the mutex is released, and is never
\* cleared; a callback that tests the flag when it is set returns without
\* touching the connection; one that tested it before makes one attempt.
C27_ShortCircuitOnceFlagSet ==
    [][\A n \in Events, i \in Slots :
          /\ cflag[i] => cflag'[i]
          /\ cflag'[i] /= cflag[i] => wfailed[i] > 0
          /\ (wfailed'[i] > 0 /\ ~cflag'[i]) => \E m \in Events : cbpc'[m][i] = "store"
          /\ (cflag[i] /\ cbpc[n][i] = "check" /\ cbpc'[n][i] /= "check") =>
                cbpc'[n][i] = "skipped" /\ ConnUntouched(i)
          /\ cbpc[n][i] = "skipped" => cbpc'[n][i] = "skipped"]_vars

\* The write of event 1 to A failed and its callback set the flag; event 2
\* was emitted after that and its callback returned at the test.
C27_Witness ==
    /\ Len(slotConn) >= 1 /\ slotConn[1].conn = "A"
    /\ wfailed[1] = 2 /\ cflag[1]
    /\ cbpc[1][1] = "done"
    /\ cbpc[2][1] = "skipped"

\* Event 2 was emitted after the write of event 1 had failed and before the
\* flag was stored; its callback is inside WriteMessage.
WriteInTheGap ==
    /\ wfailed[1] = 2 /\ ~cflag[1]
    /\ cbpc[1][1] = "store"
    /\ cbpc[2][1] = "write"

\* The entries of cancelLog for slot i: the calls of its cancel closure.
CancelsOf(i) == {k \in 1..Len(cancelLog) : cancelLog[k].slot = i}

\* C28: a read failure in the read loop of handleSubscribeEvents calls
\* cancel, once, and ends the handler: the slot of the subscription is nil
\* and the worker is back in handleConnection's loop. No subscription is
\* cancelled twice, and the callback of a cancelled subscription is not
\* called for an event emitted after its cancel has returned.
C28_ReadFailureCancelsOnce ==
    [][/\ \A c \in BusSubs :
             (cpc[c] = "sub_loop" /\ cpc'[c] /= "sub_loop") =>
                 /\ cpc'[c] = "read"
                 /\ Len(cancelLog') = Len(cancelLog) + 1
                 /\ cancelLog'[Len(cancelLog')].slot = SlotOf(c)
                 /\ CancelsOf(SlotOf(c)) = {}
                 /\ subscribers'[SlotOf(c)] = "nil"
                 /\ \A j \in 1..Len(subscribers) :
                       j /= SlotOf(c) => subscribers'[j] = subscribers[j]
       /\ cancelLog' /= cancelLog =>
             \E c \in BusSubs : cpc[c] = "sub_loop" /\ cpc'[c] = "read"
       /\ \A k \in 1..Len(cancelLog'), n \in Events :
             n > cancelLog'[k].at => cbpc'[n][cancelLog'[k].slot] = "none"]_vars

\* A's subscription was cancelled on a read failure, an event was emitted
\* afterwards and delivered to the other subscriber only.
C28_Witness ==
    \E k \in 1..Len(cancelLog), n \in Events, j \in 1..Len(subscribers) :
        /\ n <= Len(emitted) /\ n > cancelLog[k].at
        /\ cbpc[n][cancelLog[k].slot] = "none"
        /\ j /= cancelLog[k].slot /\ cbpc[n][j] = "done"
        /\ cpc[slotConn[cancelLog[k].slot].conn] \in {"read", "closed"}

\* The slots as the subscriptions were registered: a slot holds its
\* subscription's callback until that subscription is cancelled and nil
\* from then on, a cancel closure called again changes nothing, and every
\* event was handed to the callback of each subscription registered before
\* it and not cancelled by then; a callback that has returned without a
\* failed write has put the event on its connection.
SlotsKept ==
    /\ Len(subscribers) = Len(slotConn)
    /\ \A j \in 1..Len(subscribers) :
          subscribers[j] = (IF CancelsOf(j) = {} THEN slotConn[j].conn
                            ELSE "nil")
    /\ \A k \in 1..Len(cancelLog) :
          CancelSlot(cancelLog[k].slot) = subscribers
    /\ \A n \in 1..Len(emitted), j \in 1..Len(subscribers) :
          LiveAt(n, j) =>
              /\ cbpc[n][j] /= "none"
              /\ (cbpc[n][j] = "done" /\ wfailed[j] = 0) =>
                    \E x \in 1..Len(wire[slotConn[j].conn]) :
                        wire[slotConn[j].conn][x] = EventFrame(emitted[n])

\* C29: every subscription keeps the slot it was registered in, whatever is
\* subscribed, cancelled or emitted meanwhile: the vector only grows, a
\* step empties a slot only by cancelling that slot, a cancel closure
\* called again changes nothing, and every subscription that is not
\* cancelled is handed each event emitted afterwards.
C29_SlotsIndependent ==
    [][/\ SlotsKept /\ SlotsKept'
       /\ Len(subscribers') >= Len(subscribers)
       /\ \A j \in 1..Len(subscribers) :
             /\ slotConn'[j] = slotConn[j]
             /\ subscribers'[j] /= subscribers[j] =>
                   /\ subscribers'[j] = "nil"
                   /\ Len(cancelLog') = Len(cancelLog) + 1
                   /\ cancelLog'[Len(cancelLog')].slot = j]_vars

\* One subscription was cancelled, another was registered in a later slot
\* after that, and an event emitted after both was written to the
\* connection of the second and not handed to the first.
C29_Witness ==
    \E k \in 1..Len(cancelLog), j \in 1..Len(subscribers), n \in 1..Len(emitted) :
        /\ j > cancelLog[k].slot
        /\ slotConn[j].from >= cancelLog[k].at
        /\ subscribers[j] /= "nil" /\ subscribers[cancelLog[k].slot] = "nil"
        /\ LiveAt(n, j)
        /\ cbpc[n][j] = "done" /\ wfailed[j] = 0
        /\ cbpc[n][cancelLog[k].slot] = "none"

\* ------------------------------------------------------------ server stop
\* What Stop, the accept loop and the workers do in order, apart from the
\* socket file: the listener is closed after quit, Stop passes wg.Wait()
\* only when the accept loop and every worker have returned, Accept hands
\* out a connection only while the listener is open, a worker that finds
\* quit closed at its select returns, and a worker that has returned
\* dispatches nothing.
StopSteps ==
    /\ (listener = "open" /\ listener' = "closed") => quit
    /\ (stoppc = "wait" /\ stoppc' /= "wait") =>
          /\ stoppc' = "remove"
          /\ apc = <<"exited">> /\ Workers = {}
          /\ quit /\ listener = "closed"
    /\ stoppc \in {"remove", "stopped"} =>
          /\ apc' = <<"exited">> /\ Workers' = {}
          /\ handled' = handled
    /\ (apc = <<"accept">> /\ apc'[1] = "go") => listener = "open"
    /\ \A c \in StopConns :
          /\ (wpc[c] = "select" /\ quit /\ wpc'[c] /= "select") =>
                wpc'[c] = "exited" /\ handled' = handled
          /\ wpc[c] = "exited" => wpc'[c] = "exited" /\ handled'[c] = handled[c]

\* C30: Stop closes quit and the listener, waits for the accept loop and
\* every worker to return, and only then is the socket file unlinked; no
\* connection is accepted once the listener is closed, and a worker that
\* finds quit closed between two frames dispatches no further request.
C30_StopOrder ==
    [][/\ StopSteps
       /\ (sockFile /\ ~sockFile') =>
             /\ quit /\ listener = "closed"
             /\ apc = <<"exited">> /\ Workers = {}]_vars

\* The order of the calls in Stop: os.Remove is called after wg.Wait() has
\* returned, with the accept loop and every worker gone.
StopCallOrder ==
    [][/\ StopSteps
       /\ (stoppc = "remove" /\ stoppc' = "stopped") =>
             /\ quit /\ listener = "closed"
             /\ apc = <<"exited">> /\ Workers = {}]_vars

\* The socket file is gone while Stop waits and a worker is still serving
\* its connection.
SocketFileGoneWhileServing ==
    \E c \in StopConns :
        /\ ~sockFile /\ stoppc = "wait"
        /\ wpc[c] = "handle"

\* Stop has returned after a worker left at its select with a frame unread.
StoppedWithFrameUnread ==
    \E c \in StopConns :
        /\ stoppc = "stopped" /\ wpc[c] = "exited"
        /\ pending[c] > 0 /\ handled[c] > 0

\* ------------------------------------------------------------ signal names
\* The names of mapSignal's table with their signals.
SignalTable ==
    {<<<<"K", "I", "L", "L">>, SIGKILL>>, <<<<"I", "N", "T">>, SIGINT>>,
     <<<<"Q", "U", "I", "T">>, SIGQUIT>>, <<<<"H", "U", "P">>, SIGHUP>>,
     <<<<"U", "S", "R", "1">>, SIGUSR1>>, <<<<"U", "S", "R", "2">>, SIGUSR2>>,
     <<<<"T", "E", "R", "M">>, SIGTERM>>}

\* a and b are the same name apart from the case of their letters.
SameIgnoringCase(a, b) ==
    /\ Len(a) = Len(b)
    /\ \A i \in 1..Len(a) : ToUpperChar(a[i]) = ToUpperChar(b[i])

\* name is the table's name n, with or without the prefix SIG.
Names(name, n) ==
    \/ SameIgnoringCase(name, n)
    \/ SameIgnoringCase(name, <<"S", "I", "G">> \o n)

\* C32: mapSignal gives every name of its table, in any case and with or
\* without the prefix SIG, the signal of that name, and gives SIGTERM to
\* the empty name and to every name that is not in the table.
C32_SignalNames ==
    \A i \in 1..Len(sigLog) :
        /\ \A e \in SignalTable :
              Names(sigLog[i].name, e[1]) => sigLog[i].sig = e[2]
        /\ (\A e \in SignalTable : ~Names(sigLog[i].name, e[1])) =>
              sigLog[i].sig = SIGTERM
        /\ sigLog[i].name = <<>> => sigLog[i].sig = SIGTERM

\* A lower-case name with the prefix was translated, and a name outside
\* the table fell back to SIGTERM.
C32_Witness ==
    /\ Len(sigLog) = 2
    /\ sigLog[1].name = <<"s", "i", "g", "k", "i", "l", "l">>
    /\ sigLog[1].sig = SIGKILL
    /\ sigLog[2].name = <<"S", "I", "G", "S", "T", "O", "P">>
    /\ sigLog[2].sig = SIGTERM

\* ------------------------------------------------------------ daemon shutdown
\* Child k was started and its completion latch is not signalled.
Outstanding(k) == child[k] \in {"running", "exited"} /\ ~done[k]

\* Some kill call has sent a signal for child k.
Signalled(k) == \E i \in 1..Len(sent) : sent[i].proc = k

\* C31: when shutdown has completed, every child that was started and whose
\* completion latch is not signalled has been sent a signal, the children
\* spawned while shutdown was in progress included.
C31_ShutdownSignalsAll ==
    mainpc = "exited" => \A k \in Procs : Outstanding(k) => Signalled(k)

\* What killAll does: each id it copied from the registry got one kill
\* call with SIGTERM, for a record the registry held under that id.
KillAllCoversSnapshot ==
    mainpc \in {"stopping", "exited"} =>
        /\ \A id \in ids : \E i \in 1..Len(sent) : pid[sent[i].proc] = id
        /\ \A i \in 1..Len(sent) : sent[i].sig = SIGTERM
        /\ Len(sent) = Cardinality(ids)

\* The daemon has exited; a child spawned after killAll copied the ids is
\* running and was never signalled, while the child spawned before was.
SpawnedAfterSnapshot ==
    \E k, j \in Procs :
        /\ mainpc = "exited"
        /\ child[k] = "running" /\ ~Signalled(k)
        /\ pid[k] \notin ids
        /\ Signalled(j)

\* ------------------------------------------------------------ one reply per request
\* No subscribeEvents request was dispatched on connection c.
NeverSubscribed(c) ==
    \A i \in 1..Len(backendLog) :
        backendLog[i].conn = c =>
            backendLog[i].call.method \notin {"subscribeEvents", "cancel"}

\* The backend operations the step invoked.
Invoked == SubSeq(backendLog', Len(backendLog) + 1, Len(backendLog'))

\* C33: on a connection no subscribeEvents request was dispatched on, the
\* worker writes a frame only when it has read one, and for each frame read
\* it writes exactly one reply before it reads the next: a failure with the
\* backend's error message when the operation it invoked for the request
\* returned an error, a success only when no invoked operation failed. So
\* the replies on the connection are in the order of its requests.
C33_OneReplyPerRequest ==
    [][\A c \in CmdConns :
          NeverSubscribed(c) =>
              /\ ~Reads(c) => wire'[c] = wire[c]
              /\ (Reads(c) /\ ~ReadsPayload(c)) => wire'[c] = wire[c]
              /\ ReadsPayload(c) =>
                    /\ Len(wire'[c]) = Len(wire[c]) + 1
                    /\ SubSeq(wire'[c], 1, Len(wire[c])) = wire[c]
                    /\ \A d \in CmdConns \ {c} : wire'[d] = wire[d]
                    /\ Len(Invoked) <= 1
                    /\ LET reply == wire'[c][Len(wire'[c])] IN
                          /\ reply.kind = "reply"
                          /\ reply.success \in BOOLEAN
                          /\ \A i \in 1..Len(Invoked) :
                                /\ Invoked[i].conn = c
                                /\ Invoked[i].call.method =
                                       MethodOf(lastRead'[c].payload)
                                /\ (Invoked[i].out.err /= ""
                                       /\ ~NeverFails(Invoked[i].call.method)) =>
                                      reply = ErrorReply(Invoked[i].out.err)
                                /\ (Invoked[i].out.err = ""
                                       \/ NeverFails(Invoked[i].call.method)) =>
                                      reply.success
                          /\ Invoked = <<>> => ~reply.success]_vars

\* A connection that never subscribed has two replies: a failure with the
\* backend's message for its first request, a success for its second.
C33_Witness ==
    \E c \in CmdConns :
        /\ NeverSubscribed(c)
        /\ Len(wire[c]) = 2
        /\ wire[c][1] = ErrorReply("backend failure")
        /\ wire[c][2].success
        /\ lastRead[c].n >= 2

\* C34: once Stop has been called it returns, with the socket file
\* unlinked, whatever the clients do.
C34_StopCompletes ==
    (stoppc = "close") ~> (stoppc = "stopped" /\ ~sockFile)

\* What the code gives: Stop returns when every client whose connection was
\* made before the listener closed hangs up at some time.
StopCompletesWhenClientsLeave ==
    (\A c \in StopConns : <>[](Connected(c) => hung[c])) =>
        ((stoppc = "close") ~> (stoppc = "stopped" /\ ~sockFile))

\* Stop waits in wg.Wait() while a worker is blocked in ReadMessage on an
\* open connection without a frame to read, and the accept loop is gone.
StopWaitsForIdleClient ==
    \E c \in StopConns :
        /\ stoppc = "wait" /\ apc = <<"exited">>
        /\ wpc[c] = "read" /\ pending[c] = 0 /\ ~hung[c]

\* Stop waits in wg.Wait() while a worker is parked in the read loop of
\* handleSubscribeEvents on an open connection.
StopWaitsForSubscriber ==
    \E c \in StopConns :
        /\ stoppc = "wait" /\ apc = <<"exited">>
        /\ wpc[c] = "sub_loop" /\ pending[c] = 0 /\ ~hung[c]

\* ------------------------------------------------------------ C35
\* The writeStdin call that started writer goroutine w has returned while
\* the goroutine has not finished: the caller leaves its select without
\* the goroutine's result only through the lp.done case or the timer
\* (process.go:415-418).
ReturnedEarly(w) ==
    /\ wgo[w] \in {"lock", "write"}
    /\ \A c \in CmdConns : ~(cpc[c] = "ws_select" /\ cw[c] = w)

\* The goroutine of a call that has returned sits in lp.stdin.Write on a
\* full pipe with lp.mu held.
HoldsMutexBlocked(w) ==
    /\ ReturnedEarly(w)
    /\ wgo[w] = "write" /\ stdinMu[wproc[w]] = w
    /\ child[wproc[w]] /= "exited" /\ stdinBuf[wproc[w]] >= StdinCap

\* The data of a call that has returned goes into the child's stdin.
LateWrite(w) ==
    /\ ReturnedEarly(w)
    /\ wgo'[w] = "done" /\ wres'[w] = "ok"

\* C35: a writeStdin call that returned a failure has no later effect: its
\* data is not written to the child's stdin after the return, and its
\* goroutine does not stay in the write with the stdin mutex held.
C35_FailedCallHasNoLaterEffect ==
    [][\A w \in Writes :
          /\ ~LateWrite(w)
          /\ ~HoldsMutexBlocked(w) /\ ~HoldsMutexBlocked(w)']_vars

\* What the code gives: the goroutine of a call that returned because the
\* child was reaped never adds data to the pipe, and a goroutine that is
\* left behind writes at most the data of its own call, once.
LateWriteOnlyWhileChildLives ==
    [][\A w \in Writes :
          LateWrite(w) => child[wproc[w]] = "running" /\ wgo[w] = "write"
                          /\ stdinMu[wproc[w]] = w]_vars

\* A call timed out on a full pipe and its goroutine is still in the write
\* with lp.mu held: the writer of any later call for that child has to wait.
TimedOutWriterHoldsMutex == \E w \in Writes : HoldsMutexBlocked(w)

\* ------------------------------------------------------------ C36
\* The signals a step has sent.
NewlySent == (Len(sent) + 1)..Len(sent')

\* C36: kill sends nothing for a child whose latch is signalled; a signal
\* is delivered only to the process group of a child that is running or
\* has exited and is not yet reaped.
C36_NoSignalAfterReap ==
    [][\A i \in NewlySent :
          sent'[i].delivered =>
              /\ sent'[i].to = "own"
              /\ ~Reaped(sent'[i].proc)
              /\ ~done[sent'[i].proc]]_vars

\* What the code gives: after c.Wait() has returned, no signal of kill
\* reaches the child itself, and a failed Getpgid sends nothing.
ReapedChildGetsNoSignal ==
    [][/\ \A k \in Procs : Reaped(k) => got'[k] = got[k]
       /\ \A i \in NewlySent :
            Reaped(sent'[i].proc) /\ sent'[i].to = "proc"
                => ~sent'[i].delivered]_vars

\* kill was called for a child whose latch is closed, Getpgid found the
\* child's old pid in use again, and the signal went to that group.
SignalToStranger ==
    \E i \in 1..Len(sent) :
        /\ sent[i].to = "stranger" /\ sent[i].delivered
        /\ done[sent[i].proc]

\* ------------------------------------------------------------ C37
\* Connection c's request is answered by this step.
Answered(c, from) == cpc[c] = from /\ cpc'[c] = "read" /\ wire'[c] /= wire[c]

\* C37: a request that begins after the exit event of its process has been
\* emitted finds the process finished: isProcessRunning answers false, and
\* writeStdin answers `process <id> has exited` and starts no write.
C37_FinishedAfterExitEvent ==
    [][\A c \in CmdConns :
          afterExit[c] =>
            /\ Answered(c, "isr_check")
                 => Last(wire'[c]) = SuccessReply([running |-> FALSE])
            /\ cpc[c] = "ws_check"
                 => /\ cpc'[c] \in {"ws_check", "read"}
                    /\ nwrites' = nwrites
                    /\ Answered(c, "ws_check")
                         => Last(wire'[c]) =
                               ErrorReply(HasExitedError(req[c].id))]_vars

\* What the code gives, with the latch in place of the event: a request
\* that polls a closed latch is answered false, or `has exited` without a
\* write; and a writeStdin that begins after the exit event, whatever the
\* latch, fails and adds nothing to the child's stdin.
C37_FinishedOnceLatched ==
    [][\A c \in CmdConns :
          /\ lq[c] /= 0 /\ done[lq[c]] /\ Answered(c, "isr_check")
               => Last(wire'[c]) = SuccessReply([running |-> FALSE])
          /\ lq[c] /= 0 /\ done[lq[c]] /\ cpc[c] = "ws_check" /\ cpc'[c] /= "ws_check"
               => /\ Answered(c, "ws_check")
                  /\ Last(wire'[c]) = ErrorReply(HasExitedError(req[c].id))
                  /\ nwrites' = nwrites
          /\ afterExit[c] /\ req[c].op = "writeStdin"
               => /\ stdinBuf'[lq[c]] = stdinBuf[lq[c]]
                  /\ wire'[c] /= wire[c] => ~Last(wire'[c]).success]_vars

\* Both kinds of request began after the latch was closed and were answered:
\* false, and `has exited`.
C37_Witness ==
    \E b, c \in CmdConns :
        /\ b /= c
        /\ afterExit[b] /\ afterExit[c] /\ done[lq[b]] /\ done[lq[c]]
        /\ cpc[b] = "read" /\ cpc[c] = "read"
        /\ req[b].op = "isProcessRunning" /\ req[c].op = "writeStdin"
        /\ Last(wire[b]) = SuccessReply([running |-> FALSE])
        /\ Last(wire[c]) = ErrorReply(HasExitedError(req[c].id))

\* The subscriber has the exit event, the latch is still open, and a request
\* that began after the event was answered {running: true}.
RunningAfterExitEvent ==
    \E c \in CmdConns, a \in SubConns :
        /\ afterExit[c] /\ req[c].op = "isProcessRunning" /\ cpc[c] = "read"
        /\ Last(wire[c]) = SuccessReply([running |-> TRUE])
        /\ \E i \in 1..Len(wire[a]) :
              wire[a][i] = EventFrame(ExitEventOf(lq[c]))

\* The subscriber has the exit event and a writeStdin that began after it
\* got past the latch poll and started its writer goroutine.
WriterStartedAfterExitEvent ==
    \E c \in CmdConns, a \in SubConns :
        /\ afterExit[c] /\ req[c].op = "writeStdin" /\ cpc[c] = "ws_select"
        /\ \E i \in 1..Len(wire[a]) :
              wire[a][i] = EventFrame(ExitEventOf(lq[c]))

\* ------------------------------------------------------------ C38
\* The writeStdin calls whose bytes are the forward remap alone: the record
\* has both prefixes and no mount remaps, the data no skill marker, and the
\* write took place.
ForwardOnly ==
    {i \in 1..Len(stdinLog) :
        /\ stdinLog[i].err = ""
        /\ ForwardEnabled(lproc) /\ lproc.mountRemap = <<>>
        /\ \A j \in 1..Len(stdinLog[i].data) : stdinLog[i].data[j] /= Marker}

\* Data made of the real prefix and nothing virtual before it: the real
\* prefix alone or followed by a mount directory.
InRealNamespace(data) ==
    /\ Len(data) >= Len(lproc.realPrefix)
    /\ lproc.realPrefix = SubSeq(data, 1, Len(lproc.realPrefix))

\* C38: the forward remap leaves data of the real namespace as it is, and
\* remapping the bytes it produced once more changes nothing.
C38_ForwardRemapIdempotent ==
    \A i \in ForwardOnly :
        /\ InRealNamespace(stdinLog[i].data)
              => stdinLog[i].written = stdinLog[i].data
        /\ ReplaceAll(stdinLog[i].written, lproc.vmPrefix, lproc.realPrefix)
              = stdinLog[i].written

\* Neither prefix occurs in the other and no end of one begins the other.
Unrelated(v, r) ==
    /\ Index(r, v) = 0 /\ Index(v, r) = 0
    /\ \A n \in 1..(Len(v) - 1) :
          n < Len(r) =>
            /\ SubSeq(v, 1, n) /= SubSeq(r, Len(r) - n + 1, Len(r))
            /\ SubSeq(v, Len(v) - n + 1, Len(v)) /= SubSeq(r, 1, n)

\* What the code gives: the same, for prefixes that are unrelated.
ForwardRemapIdempotentIfUnrelated ==
    \A i \in ForwardOnly :
        Unrelated(lproc.vmPrefix, lproc.realPrefix) =>
            /\ InRealNamespace(stdinLog[i].data)
                  => stdinLog[i].written = stdinLog[i].data
            /\ ReplaceAll(stdinLog[i].written, lproc.vmPrefix,
                          lproc.realPrefix) = stdinLog[i].written

\* The real prefix ends with the virtual one, as in the example of
\* process.go:34-35; the real prefix was written and the child got it with
\* its beginning doubled.
RealPathRemappedAgain ==
    \E i \in ForwardOnly :
        /\ stdinLog[i].data = lproc.realPrefix
        /\ stdinLog[i].written /= stdinLog[i].data
        /\ ~lproc.reverseMap

\* Unrelated prefixes: the real prefix was written and reached the child
\* unchanged.
RealPathKept ==
    \E i \in ForwardOnly :
        /\ Unrelated(lproc.vmPrefix, lproc.realPrefix)
        /\ stdinLog[i].data = lproc.realPrefix
        /\ stdinLog[i].written = stdinLog[i].data

\* ------------------------------------------------------------ C39
\* The reader of stream s of child k returned on a scanner failure: it is
\* done with a line left in the pipe.
ScanFailed(k, s) == rd[k][s] = "done" /\ scanned[k][s] < Len(written[k][s])

\* The error events emitted for stream s of child k.
ErrorEventsOf(k, s) ==
    SelectSeq(emitted,
              LAMBDA e : e.type = "error" /\ e.proc = k /\ e.stream = s)

\* The exit event of child k has been handed to emit.
ExitEventEmitted(k) ==
    \E i \in 1..Len(emitted) : emitted[i].type = "exit" /\ emitted[i].proc = k

\* Nothing is owed for child k: with a stream failed, the reader of the
\* other stream has consumed every line it can scan, and if the child has
\* terminated its exit event is emitted and its latch signalled.
Settled(k) ==
    \A s \in Streams, t \in Streams :
        s /= t /\ ScanFailed(k, s) =>
            /\ rd[k][t] = "scan" => scanned[k][t] = Len(written[k][t])
            /\ child[k] = "exited" => ExitEventEmitted(k) /\ done[k]

\* C39: a scanner failure on a stream emits one error event, not fatal; the
\* reader of the other stream goes on consuming what the child writes; and
\* once the child has terminated the exit event is emitted and the latch
\* signalled, with lines left unread in the pipe of the failed stream.
\* What is owed only shrinks once the child has stopped writing, so "is
\* eventually done" is "from some point on nothing is owed".
C39_ScannerFailureKeepsLifecycle ==
    /\ [](\A k \in Procs, s \in Streams :
            /\ Len(ErrorEventsOf(k, s)) = (IF ScanFailed(k, s) THEN 1 ELSE 0)
            /\ \A i \in 1..Len(ErrorEventsOf(k, s)) :
                  ~ErrorEventsOf(k, s)[i].fatal)
    /\ <>[](\A k \in Procs : Settled(k))

\* stdout failed on a long line, a line of stderr was streamed after the
\* error event, the child terminated, and the exit event followed and the
\* latch is closed.
C39_Witness ==
    \E k \in Procs :
        /\ ScanFailed(k, "stdout") /\ done[k] /\ ExitEventEmitted(k)
        /\ \E i, j \in 1..Len(emitted) :
              /\ i < j
              /\ emitted[i].type = "error" /\ emitted[i].stream = "stdout"
              /\ emitted[j].type = "stdout" /\ emitted[j].stream = "stderr"
              /\ emitted[Len(emitted)].type = "exit"

\* ------------------------------------------------------------ C40
\* The {subscribed:true} reply has been written on connection c.
SubscriptionAcked(c) ==
    \E i \in 1..Len(wire[c]) : wire[c][i] = SuccessReply([subscribed |-> TRUE])

\* The step answers nothing on c and dispatches nothing for c; cancel() of
\* the subscription is not a dispatch.
Discards(c) ==
    /\ wire'[c] = wire[c]
    /\ \A i \in 1..Len(Invoked) :
          Invoked[i].conn = c => Invoked[i].call.method = "cancel"

\* C40: after the {subscribed:true} reply no frame read on the connection
\* is dispatched to a backend operation or answered.
C40_FramesAfterSubscribeDiscarded ==
    [][\A c \in CmdConns : SubscriptionAcked(c) => Discards(c)]_vars

\* What the code gives: the same while the worker is in the read loop of
\* handleSubscribeEvents, that is until a read on the connection fails.
DiscardedUntilReadFails ==
    [][\A c \in CmdConns : served[c] = "subscribed" => Discards(c)]_vars

\* The subscription was acknowledged, a read failed on a frame with a bad
\* length, and the frame after it was dispatched and answered.
AnsweredAfterSubscribe ==
    \E c \in CmdConns :
        /\ SubscriptionAcked(c) /\ connOpen[c]
        /\ failures[c] > 0
        /\ "payload" \in DOMAIN lastRead[c]
        /\ ~Last(wire[c]) = SuccessReply([subscribed |-> TRUE])
====
